---------------------------- MODULE Spec2Model ----------------------------
(***************************************************************************)
(* Animated PlantUML: the text-to-model parser (plantuml-parser.js), the   *)
(* rendering surface (canvas-engine.js), the flow animation engine         *)
(* (animation-system.js) and the application controller (main.js).         *)
(*                                                                         *)
(* Strings that the program inspects or concatenates (lines, entity ids,   *)
(* connection ids, labels) are sequences of one-character strings.  Time   *)
(* is in milliseconds; the animation speed is in tenths; stroke widths are *)
(* in hundredths.                                                          *)
(***************************************************************************)
EXTENDS Integers, Sequences, FiniteSets, TLC

\* F(v), with v evaluated once: where the code stores a value in a constant
\* and uses it several times.
With(v, F(_)) == CHOOSE r \in {F(x) : x \in {v}} : TRUE

Max(S) == With(S, LAMBDA T : CHOOSE m \in T : \A k \in T : k <= m)
Min(S) == With(S, LAMBDA T : CHOOSE m \in T : \A k \in T : m <= k)

\* JS null (from/to of a command marker, currentDiagram before generation).
NULL == <<>>

\* `${null}`
Str(id) == IF id = NULL THEN <<"n", "u", "l", "l">> ELSE id

(***************************************************************************)
(* Character classes of the regular expressions.                           *)
(***************************************************************************)
WordChars ==
    {"A","B","C","D","E","F","G","H","I","J","K","L","M","N","O","P","Q","R",
     "S","T","U","V","W","X","Y","Z",
     "a","b","c","d","e","f","g","h","i","j","k","l","m","n","o","p","q","r",
     "s","t","u","v","w","x","y","z",
     "0","1","2","3","4","5","6","7","8","9","_"}

IsWordChar(c) == c \in WordChars
IsSpace(c) == c \in {" ", "\t"}
QUOTE == "\""

WordRun(s, a, b) == a <= b /\ b <= Len(s) /\ \A i \in a..b : IsWordChar(s[i])
NonSpaceRun(s, a, b) == a <= b /\ b <= Len(s) /\ \A i \in a..b : ~IsSpace(s[i])
NoQuoteRun(s, a, b) == a <= b /\ b <= Len(s) /\ \A i \in a..b : s[i] # QUOTE

\* Optional spaces from position i: the position of the first non-space character.
SkipSpaces(s, i) ==
    With({j \in i..Len(s) : ~IsSpace(s[j])},
         LAMBDA J : IF J # {} THEN Min(J) ELSE Len(s) + 1)

LitAt(s, i, lit) ==
    /\ i >= 1
    /\ i + Len(lit) - 1 <= Len(s)
    /\ SubSeq(s, i, i + Len(lit) - 1) = lit

StartsWith(s, lit) == LitAt(s, 1, lit)

\* A greedy word run from position i: the end of the maximal word run (0: none).
WordEnd(s, i) ==
    IF i <= Len(s) /\ IsWordChar(s[i])
    THEN Max({e \in i..Len(s) : WordRun(s, i, e)})
    ELSE 0

\* String.prototype.trim
Trim(s) ==
    With({i \in 1..Len(s) : ~IsSpace(s[i])},
         LAMBDA I : IF I = {} THEN <<>> ELSE SubSeq(s, Min(I), Max(I)))

(***************************************************************************)
(* The connection regular expressions of parseConnection and               *)
(* parseObjectDefinition all have one shape: an endpoint group (a word run *)
(* or else a run of non-space characters), optional spaces, one of a list  *)
(* of arrow literals, optional spaces, a second endpoint group, and then   *)
(* either optional spaces, a colon, optional spaces and the rest of the    *)
(* line (labelled), or the end of the line (unlabelled).  They are matched *)
(* unanchored, in the backtracking order of the regex engine: the leftmost *)
(* start; for a group the word-run alternative before the non-space one,   *)
(* each longest first; the arrow alternatives in the order written.        *)
(***************************************************************************)
TailOk(s, e, labelled) ==
    IF labelled
    THEN With(SkipSpaces(s, e + 1), LAMBDA j : j <= Len(s) /\ s[j] = ":")
    ELSE e = Len(s)

\* Group 3 from position q: the end it matches with (0: no match).
GroupEnd3(s, q, labelled) ==
    With({e \in q..Len(s) : WordRun(s, q, e) /\ TailOk(s, e, labelled)},
         LAMBDA W :
            IF W # {} THEN Max(W)
            ELSE With({e \in q..Len(s) : NonSpaceRun(s, q, e) /\ TailOk(s, e, labelled)},
                      LAMBDA S : IF S # {} THEN Max(S) ELSE 0))

\* With group 1 ending at e1: the first arrow alternative that matches (0: none).
ArrowAfter(s, e1, arrows, labelled) ==
    With(SkipSpaces(s, e1 + 1),
         LAMBDA j :
            With({k \in 1..Len(arrows) :
                    /\ LitAt(s, j, arrows[k])
                    /\ With(SkipSpaces(s, j + Len(arrows[k])),
                            LAMBDA q : GroupEnd3(s, q, labelled) # 0)},
                 LAMBDA K : IF K # {} THEN Min(K) ELSE 0))

\* Group 1 from position p: the end it matches with (0: no match).
GroupEnd1(s, p, arrows, labelled) ==
    With({e \in p..Len(s) : WordRun(s, p, e) /\ ArrowAfter(s, e, arrows, labelled) # 0},
         LAMBDA W :
            IF W # {} THEN Max(W)
            ELSE With({e \in p..Len(s) :
                         NonSpaceRun(s, p, e) /\ ArrowAfter(s, e, arrows, labelled) # 0},
                      LAMBDA S : IF S # {} THEN Max(S) ELSE 0))

NoMatch == [ok |-> FALSE]

\* The match that starts at p, group 1 ending at e1, with arrow alternative k.
MatchAt(s, arrows, labelled, p, e1, k) ==
    With(SkipSpaces(s, SkipSpaces(s, e1 + 1) + Len(arrows[k])),
         LAMBDA q :
            With(GroupEnd3(s, q, labelled),
                 LAMBDA e3 :
                    [ok    |-> TRUE,
                     g1    |-> SubSeq(s, p, e1),
                     arrow |-> arrows[k],
                     g3    |-> SubSeq(s, q, e3),
                     label |-> IF labelled
                               THEN SubSeq(s, SkipSpaces(s, SkipSpaces(s, e3 + 1) + 1), Len(s))
                               ELSE <<>>]))

\* The first position from p on where the pattern matches (0: none).
RECURSIVE FirstStart(_, _, _, _)
FirstStart(s, arrows, labelled, p) ==
    IF p > Len(s) THEN 0
    ELSE IF GroupEnd1(s, p, arrows, labelled) # 0 THEN p
    ELSE FirstStart(s, arrows, labelled, p + 1)

\* line.match(regex): [ok, g1, arrow, g3, label]
MatchConnection(s, arrows, labelled) ==
    With(FirstStart(s, arrows, labelled, 1),
         LAMBDA p :
            IF p = 0 THEN NoMatch
            ELSE With(GroupEnd1(s, p, arrows, labelled),
                      LAMBDA e1 :
                         With(ArrowAfter(s, e1, arrows, labelled),
                              LAMBDA k : MatchAt(s, arrows, labelled, p, e1, k))))

(***************************************************************************)
(* plantuml-parser.js                                                      *)
(***************************************************************************)
A_SOLID      == <<"-", ">">>
A_DASHED     == <<"-", "-", ">">>
A_RSOLID     == <<"<", "-">>
A_RDASHED    == <<"<", "-", "-">>
A_DOUBLE     == <<"-", ">", ">">>
A_RDOUBLE    == <<"<", "<", "-">>
A_DOTTED     == <<".", ".", ">">>
A_DOTS2      == <<".", ".">>
A_RDOTTED    == <<"<", ".", ".">>
A_DOTS3      == <<".", ".", ".">>
A_RDOTS3     == <<"<", ".", ".", ".">>
A_BREAK      == <<"\\", "\\">>
A_BAR        == <<"|">>
A_PARALLEL   == <<"|", "|">>
A_OBAR       == <<"o", "|">>
A_BARO       == <<"|", "o">>
A_O          == <<"o">>

objectTypes ==
    [ACTOR |-> "actor", ENTITY |-> "entity", BOUNDARY |-> "boundary",
     CONTROL |-> "control", DATABASE |-> "database", PARTICIPANT |-> "participant"]

\* The declaration patterns of parseObjectDefinition, in order.
declarationPatterns ==
    << [kw |-> <<"a", "c", "t", "o", "r">>, type |-> objectTypes.ACTOR],
       [kw |-> <<"p", "a", "r", "t", "i", "c", "i", "p", "a", "n", "t">>, type |-> objectTypes.PARTICIPANT],
       [kw |-> <<"e", "n", "t", "i", "t", "y">>, type |-> objectTypes.ENTITY],
       [kw |-> <<"d", "a", "t", "a", "b", "a", "s", "e">>, type |-> objectTypes.DATABASE],
       [kw |-> <<"b", "o", "u", "n", "d", "a", "r", "y">>, type |-> objectTypes.BOUNDARY],
       [kw |-> <<"c", "o", "n", "t", "r", "o", "l">>, type |-> objectTypes.CONTROL],
       [kw |-> <<"c", "o", "l", "l", "e", "c", "t", "i", "o", "n", "s">>, type |-> "collections"],
       [kw |-> <<"q", "u", "e", "u", "e">>, type |-> "queue"] >>

\* The arrow alternatives of the two connection-shaped patterns of
\* parseObjectDefinition, in the order written.
objectArrowsLabelled ==
    << A_SOLID, A_DASHED, A_RSOLID, A_RDASHED, A_DOUBLE, A_RDOUBLE, A_DOTTED,
       A_DOTS2, A_RDOTTED, A_DOTS3, A_RDOTS3, A_BREAK, A_BAR, A_OBAR, A_BAR, A_O >>
objectArrowsUnlabelled ==
    << A_SOLID, A_DASHED, A_RSOLID, A_RDASHED, A_DOUBLE, A_RDOUBLE >>

\* The patterns of parseConnection, in order.
connectionPatterns ==
    << [arrow |-> A_SOLID,    type |-> "solid",          reverse |-> FALSE, labelled |-> TRUE],
       [arrow |-> A_DASHED,   type |-> "dashed",         reverse |-> FALSE, labelled |-> TRUE],
       [arrow |-> A_RSOLID,   type |-> "reverse_solid",  reverse |-> TRUE,  labelled |-> TRUE],
       [arrow |-> A_RDASHED,  type |-> "reverse_dashed", reverse |-> TRUE,  labelled |-> TRUE],
       [arrow |-> A_DOUBLE,   type |-> "double",         reverse |-> FALSE, labelled |-> TRUE],
       [arrow |-> A_RDOUBLE,  type |-> "reverse_double", reverse |-> TRUE,  labelled |-> TRUE],
       [arrow |-> A_DOTTED,   type |-> "dotted",         reverse |-> FALSE, labelled |-> TRUE],
       [arrow |-> A_RDOTTED,  type |-> "reverse_dotted", reverse |-> TRUE,  labelled |-> TRUE],
       [arrow |-> A_DOTS3,    type |-> "dotted_line",    reverse |-> FALSE, labelled |-> TRUE],
       [arrow |-> A_BREAK,    type |-> "break",          reverse |-> FALSE, labelled |-> TRUE],
       [arrow |-> A_PARALLEL, type |-> "parallel",       reverse |-> FALSE, labelled |-> TRUE],
       [arrow |-> A_OBAR,     type |-> "circle_start",   reverse |-> FALSE, labelled |-> TRUE],
       [arrow |-> A_BARO,     type |-> "circle_end",     reverse |-> FALSE, labelled |-> TRUE],
       [arrow |-> A_SOLID,    type |-> "solid",          reverse |-> FALSE, labelled |-> FALSE],
       [arrow |-> A_DASHED,   type |-> "dashed",         reverse |-> FALSE, labelled |-> FALSE],
       [arrow |-> A_RSOLID,   type |-> "reverse_solid",  reverse |-> TRUE,  labelled |-> FALSE],
       [arrow |-> A_RDASHED,  type |-> "reverse_dashed", reverse |-> TRUE,  labelled |-> FALSE] >>

DigitChars == <<"0", "1", "2", "3", "4", "5", "6", "7", "8", "9">>

\* `${n}` for a number n >= 0
RECURSIVE Digits(_)
Digits(n) ==
    IF n < 10 THEN <<DigitChars[n + 1]>>
    ELSE Digits(n \div 10) \o <<DigitChars[(n % 10) + 1]>>

HasObject(objects, id) == \E i \in 1..Len(objects) : objects[i].id = id

\* The entry of an id already registered is overwritten.
addObjectLastWins(st, id, name, type) ==
    [st EXCEPT !.objects =
        [i \in 1..Len(st.objects) |->
            IF st.objects[i].id = id THEN [st.objects[i] EXCEPT !.name = name, !.type = type]
            ELSE st.objects[i]]
        \o (IF HasObject(st.objects, id) THEN <<>>
            ELSE <<[id |-> id, name |-> name, type |-> type,
                    x |-> [n |-> 0, d |-> 1], y |-> [n |-> 0, d |-> 1],
                    width |-> 120, height |-> 60]>>)]

\* addObject(id, name, type): first registration wins.  An unmatched group is
\* undefined (NULL here: no group of the patterns matches the empty string),
\* and name.length of an undefined name throws.
addObject(st, id, name, type) ==
    IF HasObject(st.objects, id) THEN st
    ELSE IF name = NULL THEN [st EXCEPT !.threw = TRUE]
    ELSE [st EXCEPT !.objects = Append(@,
            [id     |-> id,
             name   |-> IF name # <<>> THEN name ELSE id,
             type   |-> type,
             x      |-> [n |-> 0, d |-> 1],
             y      |-> [n |-> 0, d |-> 1],
             width  |-> Max({Len(name) * 8 + 40, 120}),
             height |-> 60])]

\* getArrowStyle(arrowType, connectionType): stroke width in hundredths.
getArrowStyle(arrowType, connectionType) ==
    LET base ==
            CASE arrowType \in {A_DASHED, A_RDASHED}  -> [strokeWidth |-> 200, strokeDasharray |-> "5,5"]
              [] arrowType \in {A_DOUBLE, A_RDOUBLE}  -> [strokeWidth |-> 300, strokeDasharray |-> "none"]
              [] arrowType \in {A_DOTTED, A_RDOTTED}  -> [strokeWidth |-> 150, strokeDasharray |-> "2,3"]
              [] arrowType = A_DOTS3                  -> [strokeWidth |-> 100, strokeDasharray |-> "1,2"]
              [] arrowType = A_BREAK                  -> [strokeWidth |-> 250, strokeDasharray |-> "10,5"]
              [] arrowType = A_PARALLEL               -> [strokeWidth |-> 400, strokeDasharray |-> "none"]
              [] OTHER                                -> [strokeWidth |-> 200, strokeDasharray |-> "none"]
        w == base.strokeWidth
    IN  CASE connectionType = "dashed"      -> [base EXCEPT !.strokeDasharray = "5,5"]
          [] connectionType = "dotted"      ->
                [strokeWidth |-> Max({(w * 8) \div 10, 100}), strokeDasharray |-> "2,3"]
          [] connectionType = "dotted_line" ->
                [strokeWidth |-> Max({(w * 6) \div 10, 100}), strokeDasharray |-> "1,2"]
          [] connectionType = "double"      ->
                [base EXCEPT !.strokeWidth = Max({(w * 15) \div 10, 300})]
          [] connectionType = "break"       ->
                [strokeWidth |-> Max({(w * 12) \div 10, 250}), strokeDasharray |-> "10,5"]
          [] connectionType = "parallel"    ->
                [base EXCEPT !.strokeWidth = Max({w * 2, 400})]
          [] OTHER                          -> base

\* The id without the ordinal.
pushConnectionNoOrdinal(s2, fromId, toId, label, arrowType, connectionType) ==
    [s2 EXCEPT !.connections = Append(@,
        [id             |-> fromId \o <<"-">> \o toId,
         from           |-> fromId,
         to             |-> toId,
         label          |-> label,
         arrowType      |-> arrowType,
         connectionType |-> connectionType,
         style          |-> getArrowStyle(arrowType, connectionType)])]

\* this.connections.push({...}) of addConnection
pushConnection(s2, fromId, toId, label, arrowType, connectionType) ==
    [s2 EXCEPT !.connections = Append(@,
        [id             |-> fromId \o <<"-">> \o toId \o <<"-">>
                                \o Digits(Len(s2.connections)),
         from           |-> fromId,
         to             |-> toId,
         label          |-> label,
         arrowType      |-> arrowType,
         connectionType |-> connectionType,
         style          |-> getArrowStyle(arrowType, connectionType)])]

\* The connection is stored without its endpoints being registered.
addConnectionNoEndpoints(st, fromId, toId, label, arrowType, connectionType) ==
    pushConnection(st, fromId, toId, label, arrowType, connectionType)

\* addConnection(fromId, toId, label, arrowType, connectionType)
addConnection(st, fromId, toId, label, arrowType, connectionType) ==
    With(addObject(addObject(st, fromId, fromId, objectTypes.PARTICIPANT),
                   toId, toId, objectTypes.PARTICIPANT),
         LAMBDA s2 : pushConnection(s2, fromId, toId, label, arrowType, connectionType))

KW_AS         == <<"a", "s">>
KW_ACTIVATE   == <<"a", "c", "t", "i", "v", "a", "t", "e">>
KW_DEACTIVATE == <<"d", "e", "a", "c", "t", "i", "v", "a", "t", "e">>
KW_NOTE       == <<"n", "o", "t", "e">>
KW_COMMAND    == <<"c", "o", "m", "m", "a", "n", "d">>

(***************************************************************************)
(* A declaration pattern: the keyword at the start of the line, spaces, an *)
(* optional quote, a name without quotes, an optional quote, spaces, "as", *)
(* spaces and a word (the alias); or else the keyword, spaces and a word.  *)
(* The first alternative is searched in the engine's order: the spaces     *)
(* longest first, the quote taken first, the name longest first, the       *)
(* closing quote taken first.                                              *)
(***************************************************************************)
\* After the name (ending at e, closing quote taken iff q2 = 1): the position of
\* the alias, or 0 when the rest of the first alternative does not match.
AliasStart(s, e, q2) ==
    With(SkipSpaces(s, e + 1 + q2),
         LAMBDA u :
            With(SkipSpaces(s, u + 2),
                 LAMBDA v :
                    IF /\ (q2 = 1 => (e + 1 <= Len(s) /\ s[e + 1] = QUOTE))
                       /\ u > e + 1 + q2
                       /\ LitAt(s, u, KW_AS)
                       /\ v > u + 2
                       /\ WordEnd(s, v) # 0
                    THEN v ELSE 0))

AliasCandidates(s, kw) ==
    LET a == Len(kw) + 1
    IN  {c \in ((a + 1)..Len(s)) \X {0, 1} \X (1..Len(s)) \X {0, 1} :
            /\ \A i \in a..(c[1] - 1) : IsSpace(s[i])
            /\ (c[2] = 1 => s[c[1]] = QUOTE)
            /\ NoQuoteRun(s, c[1] + c[2], c[3])
            /\ AliasStart(s, c[3], c[4]) # 0}

LexGE(c, d) ==
    \/ c[1] > d[1]
    \/ c[1] = d[1] /\ c[2] > d[2]
    \/ c[1] = d[1] /\ c[2] = d[2] /\ c[3] > d[3]
    \/ c[1] = d[1] /\ c[2] = d[2] /\ c[3] = d[3] /\ c[4] >= d[4]

\* line.match(pattern.regex) for a declaration pattern: [ok, name, id]
MatchDeclaration(s, kw) ==
    IF ~StartsWith(s, kw) THEN NoMatch
    ELSE With(AliasCandidates(s, kw),
              LAMBDA C :
                 IF C # {}
                 THEN With(CHOOSE x \in C : \A y \in C : LexGE(x, y),
                           LAMBDA c :
                              With(AliasStart(s, c[3], c[4]),
                                   LAMBDA al :
                                      [ok   |-> TRUE,
                                       name |-> SubSeq(s, c[1] + c[2], c[3]),
                                       id   |-> SubSeq(s, al, WordEnd(s, al))]))
                 ELSE With(SkipSpaces(s, Len(kw) + 1),
                           LAMBDA v :
                              IF v > Len(kw) + 1 /\ WordEnd(s, v) # 0
                              THEN [ok   |-> TRUE,
                                    name |-> SubSeq(s, v, WordEnd(s, v)),
                                    id   |-> SubSeq(s, v, WordEnd(s, v))]
                              ELSE NoMatch))

\* A line that starts with kw, spaces and a word: [ok, word]
MatchKeywordWord(s, kw) ==
    With(SkipSpaces(s, Len(kw) + 1),
         LAMBDA v :
            IF StartsWith(s, kw) /\ v > Len(kw) + 1 /\ WordEnd(s, v) # 0
            THEN [ok |-> TRUE, word |-> SubSeq(s, v, WordEnd(s, v))]
            ELSE NoMatch)

\* The note pattern of parseObjectDefinition: [ok, target] (target <<>> when the
\* note names no entity).
MatchNote(s) ==
    LET v    == SkipSpaces(s, Len(KW_NOTE) + 1)
        side == {k \in {<<"l", "e", "f", "t">>, <<"r", "i", "g", "h", "t">>, <<"o", "v", "e", "r">>} : LitAt(s, v, k)}
    IN  IF ~(StartsWith(s, KW_NOTE) /\ v > Len(KW_NOTE) + 1 /\ side # {}) THEN NoMatch
        ELSE LET k == CHOOSE x \in side : TRUE
                 a == v + Len(k)
                 w == SkipSpaces(s, a)
                 e == WordEnd(s, w)
                 c == SkipSpaces(s, e + 1)
             IN  IF w > a /\ e # 0 /\ c <= Len(s) /\ s[c] = ":"
                 THEN [ok |-> TRUE, target |-> SubSeq(s, w, e)]
                 ELSE IF k # <<"o", "v", "e", "r">> /\ w <= Len(s) /\ s[w] = ":"
                 THEN [ok |-> TRUE, target |-> <<>>]
                 ELSE NoMatch

\* The two entities of a connection-shaped line: from first.
addEndpoints(st, m) ==
    With(addObject(st, m.g1, m.g1, objectTypes.PARTICIPANT),
         LAMBDA s1 : addObject(s1, m.g3, m.g3, objectTypes.PARTICIPANT))

\* The note pattern without the test of its target group.
parseOtherDefinitionAnyNote(st, line) ==
    With(MatchNote(line), LAMBDA mn :
      IF mn.ok THEN addObject(st, mn.target, mn.target, objectTypes.PARTICIPANT)
      ELSE st)

\* The patterns that follow the declarations: the two connection shapes,
\* activate, deactivate and note, the first that matches.
parseOtherDefinition(st, line) ==
    With(MatchConnection(line, objectArrowsLabelled, TRUE), LAMBDA m0 :
      IF m0.ok THEN addEndpoints(st, m0)
      ELSE With(MatchConnection(line, objectArrowsUnlabelled, FALSE), LAMBDA m1 :
        IF m1.ok THEN addEndpoints(st, m1)
        ELSE With(MatchKeywordWord(line, KW_ACTIVATE), LAMBDA m2 :
          IF m2.ok THEN addObject(st, m2.word, m2.word, objectTypes.PARTICIPANT)
          ELSE With(MatchKeywordWord(line, KW_DEACTIVATE), LAMBDA m3 :
            IF m3.ok THEN addObject(st, m3.word, m3.word, objectTypes.PARTICIPANT)
            ELSE With(MatchNote(line), LAMBDA mn :
              IF mn.ok /\ mn.target # <<>>
              THEN addObject(st, mn.target, mn.target, objectTypes.PARTICIPANT)
              ELSE st)))))

\* The declaration patterns left out.
parseObjectDefinitionNoDeclarations(st, line) == parseOtherDefinition(st, line)

\* parseObjectDefinition(line)
parseObjectDefinition(st, line) ==
    With({k \in 1..Len(declarationPatterns) :
             MatchDeclaration(line, declarationPatterns[k].kw).ok},
         LAMBDA D :
            IF D # {}
            THEN With(Min(D), LAMBDA k :
                   With(MatchDeclaration(line, declarationPatterns[k].kw), LAMBDA m :
                     addObject(st, m.id, m.name, declarationPatterns[k].type)))
            ELSE parseOtherDefinition(st, line))

\* The connection pattern that matches first (0: none).
RECURSIVE FirstPattern(_, _)
FirstPattern(line, k) ==
    IF k > Len(connectionPatterns) THEN 0
    ELSE IF MatchConnection(line, <<connectionPatterns[k].arrow>>,
                            connectionPatterns[k].labelled).ok
    THEN k
    ELSE FirstPattern(line, k + 1)

\* The marker pushed for activate and deactivate.
command(st, verb, target) ==
    [id        |-> KW_COMMAND \o <<"-">> \o Digits(Len(st.connections)),
     type      |-> "command",
     command   |-> verb,
     target    |-> target,
     from      |-> NULL,
     to        |-> NULL,
     label     |-> verb \o <<" ">> \o target,
     arrowType |-> KW_COMMAND,
     style     |-> [strokeWidth |-> 100, strokeDasharray |-> "none"]]

\* parseConnection(line)
parseConnection(st, line) ==
    With(FirstPattern(line, 1), LAMBDA k :
      IF k # 0
      THEN With(connectionPatterns[k], LAMBDA pat :
             With(MatchConnection(line, <<pat.arrow>>, pat.labelled), LAMBDA m :
               addConnection(st,
                             IF pat.reverse THEN m.g3 ELSE m.g1,
                             IF pat.reverse THEN m.g1 ELSE m.g3,
                             Trim(m.label), m.arrow, pat.type)))
      ELSE With(MatchKeywordWord(line, KW_ACTIVATE), LAMBDA ma :
        IF ma.ok
        THEN [st EXCEPT !.connections = Append(@, command(st, KW_ACTIVATE, ma.word))]
        ELSE With(MatchKeywordWord(line, KW_DEACTIVATE), LAMBDA md :
          IF md.ok
          THEN [st EXCEPT !.connections = Append(@, command(st, KW_DEACTIVATE, md.word))]
          ELSE st)))

MaxParses == 2

\* What parse returns: Array.from(this.objects.values()), a new array, and
\* this.connections, the parser's own array.
Returned(st) == [objects |-> st.objects, connections |-> st.connections]

(***************************************************************************)
(* new PlantUMLParser(): no object, no connection.  With them are kept     *)
(*   threw     a handler threw                                             *)
(*   lines     of the parse in progress, the lines kept                    *)
(*   calls     the number of handler calls made on them                    *)
(*   returned  the lists the last parse returned, as their holder sees     *)
(*             them now                                                    *)
(*   layout    the canvas size autoLayout was given them with, if it was   *)
(*   parses    the number of parse calls made, counted up to MaxParses     *)
(***************************************************************************)
NewParser ==
    [objects |-> <<>>, connections |-> <<>>, threw |-> FALSE, lines |-> <<>>, calls |-> 0,
     returned |-> [objects |-> <<>>, connections |-> <<>>], layout |-> NULL, parses |-> 0]

RECURSIVE FoldLines(_, _, _, _)
\* for (const line of lines) Op(line): the state after each line is bound as
\* a value before the next line is handled.
FoldLines(Op(_, _), st, lines, i) ==
    IF i > Len(lines) THEN st
    ELSE With(lines[i], LAMBDA line :
           With(Op(st, line), LAMBDA s : FoldLines(Op, s, lines, i + 1)))

\* The lines parse keeps: trimmed, not empty, not starting with @ or '.
KeptLines(text) ==
    LET trimmed == [i \in 1..Len(text) |-> Trim(text[i])]
    IN  SelectSeq(trimmed, LAMBDA l : l # <<>> /\ l[1] # "@" /\ l[1] # "'")

\* The connections array is emptied in place: the array the last parse
\* returned is the same array.
resetInPlace(st) ==
    [st EXCEPT !.objects = <<>>, !.connections = <<>>, !.returned.connections = <<>>]

\* reset(): the Map is cleared, the connections are a new array
reset(st) == [st EXCEPT !.objects = <<>>, !.connections = <<>>]

\* parse(plantumlText): the text is the sequence of its lines.
parse(text) ==
    With(KeptLines(text), LAMBDA lines :
      With(FoldLines(parseObjectDefinition, reset(NewParser), lines, 1),
           LAMBDA s1 : Returned(FoldLines(parseConnection, s1, lines, 1))))


\* Math.ceil(Math.sqrt(n))
CeilSqrt(n) == Min({c \in 0..n : c * c >= n})

\* Math.ceil(n / c)
CeilDiv(n, c) == (n + c - 1) \div c

LayoutPadding == 50

(***************************************************************************)
(* autoLayout(objects, canvasWidth, canvasHeight).  A coordinate is the    *)
(* exact fraction n / d: with cols columns the x of every entity has the   *)
(* denominator 2 * cols, with rows rows the y has 2 * rows.                *)
(***************************************************************************)
autoLayout(objects, canvasWidth, canvasHeight) ==
    IF Len(objects) = 0 THEN objects
    ELSE
    LET padding      == LayoutPadding
        usableWidth  == canvasWidth - padding * 2
        usableHeight == canvasHeight - padding * 2
        cols         == CeilSqrt(Len(objects))
        rows         == CeilDiv(Len(objects), cols)
        dx           == 2 * cols
        dy           == 2 * rows
        place(obj, index) ==
            LET col == (index - 1) % cols
                row == (index - 1) \div cols
                \* padding + col * cellWidth + cellWidth / 2 - width / 2
                x0  == padding * dx + 2 * col * usableWidth + usableWidth - obj.width * cols
                y0  == padding * dy + 2 * row * usableHeight + usableHeight - obj.height * rows
                x1  == Max({padding * dx, Min({x0, (canvasWidth - obj.width - padding) * dx})})
                y1  == Max({padding * dy, Min({y0, (canvasHeight - obj.height - padding) * dy})})
            IN  [obj EXCEPT !.x = [n |-> x1, d |-> dx], !.y = [n |-> y1, d |-> dy]]
    IN  [i \in 1..Len(objects) |-> place(objects[i], i)]

(***************************************************************************)
(* canvas-engine.js.  The canvas is                                        *)
(*   objects      the Map id -> entity, in insertion order                 *)
(*   connections  the connection sequence given to render                  *)
(*   classes      for each rendered entity group, its CSS classes          *)
(*   hot          the entity groups whose rectangle carries the inline     *)
(*                highlight style set by highlightObject                   *)
(*   lines        for each rendered connection group, its line: the        *)
(*                `active' class and the inline style                      *)
(***************************************************************************)
STROKE_BASE   == "#415E72"
STROKE_ACTIVE == "#C5B0CD"
MARKER_BASE   == "url(#arrowhead)"
MARKER_ACTIVE == "url(#arrowhead-active)"
GLOW          == "drop-shadow(0 0 3px currentColor)"

\* this.canvasRect of the constructor
canvasRect == [width |-> 800, height |-> 600]

\* getBoundingClientRect() of the svg element as long as nothing says otherwise
FullSize == [left |-> 0, top |-> 0, width |-> 800, height |-> 600]

\* The canvas after construction.  selectedObject is the id of the element
\* held; startPos is the variable of setupEventListeners; svgRect is where
\* the browser shows the svg element.
EmptyCanvas ==
    [objects |-> <<>>, connections |-> <<>>, classes |-> <<>>, hot |-> {}, lines |-> <<>>,
     selectedObject |-> NULL, isDragging |-> FALSE,
     dragOffset |-> [x |-> [n |-> 0, d |-> 1], y |-> [n |-> 0, d |-> 1]],
     startPos |-> [x |-> 0, y |-> 0],
     svgRect |-> FullSize]

ObjectIds(cv) == {cv.objects[i].id : i \in 1..Len(cv.objects)}

\* querySelector(`[data-id="${id}"]`) is a syntax error when the id holds a quote.
SelectorThrows(id) == \E i \in 1..Len(Str(id)) : Str(id)[i] = QUOTE

\* The entity group / connection group the selector finds.
HasObjectElement(cv, id) == Str(id) \in DOMAIN cv.classes
HasLine(cv, id) == Str(id) \in DOMAIN cv.lines

FindConnection(connections, id) ==
    With({k \in 1..Len(connections) : connections[k].id = id},
         LAMBDA K : IF K = {} THEN NULL ELSE connections[Min(K)])

\* createConnectionElement(conn): the line's initial state.
createConnectionElement(conn) ==
    [active     |-> FALSE,
     stroke     |-> "",
     width      |-> conn.style.strokeWidth,
     marker     |-> "",
     dash       |-> IF conn.style.strokeDasharray # "none" THEN conn.style.strokeDasharray ELSE "",
     offset     |-> "",
     transition |-> "",
     filter     |-> "",
     linecap    |-> IF "connectionType" \notin DOMAIN conn THEN ""
                    ELSE IF conn.connectionType \in {"dotted", "dotted_line", "double"} THEN "round"
                    ELSE IF conn.connectionType = "parallel" THEN "square"
                    ELSE ""]

\* clear(): the groups and the data emptied and selectedObject set to null;
\* isDragging, dragOffset and startPos are left as they are.
clear(cv) ==
    [cv EXCEPT !.objects = <<>>, !.connections = <<>>, !.classes = <<>>, !.hot = {},
               !.lines = <<>>, !.selectedObject = NULL]

\* render(diagramData): clear(), then the connections and the objects.
render(cv, diagramData) ==
    With({diagramData.objects[i].id : i \in 1..Len(diagramData.objects)}, LAMBDA ids :
      With({k \in 1..Len(diagramData.connections) :
              /\ diagramData.connections[k].from \in ids
              /\ diagramData.connections[k].to \in ids},
           LAMBDA drawn :
             [clear(cv) EXCEPT
                !.objects     = diagramData.objects,
                !.connections = diagramData.connections,
                !.classes     = [id \in ids |-> {}],
                !.lines       = [id \in {diagramData.connections[k].id : k \in drawn} |->
                                   With(FindConnection(diagramData.connections, id),
                                        LAMBDA conn : createConnectionElement(conn))]]))

\* highlightObject(objectId, 'highlighted')
highlightObject(cv, objectId) ==
    IF HasObjectElement(cv, objectId)
    THEN [cv EXCEPT !.classes[Str(objectId)] = @ \cup {"highlighted"},
                    !.hot = @ \cup {Str(objectId)}]
    ELSE cv

\* Reapply connection-specific styles (the loop over connection.style).
ReapplyStyle(line, connection) ==
    IF connection = NULL THEN line
    ELSE [line EXCEPT
            !.dash  = IF connection.style.strokeDasharray # "none"
                      THEN connection.style.strokeDasharray ELSE @,
            !.width = connection.style.strokeWidth]

\* highlightConnection(connectionId, 'active')
highlightConnection(cv, connectionId) ==
    IF HasLine(cv, connectionId)
    THEN [cv EXCEPT !.lines[Str(connectionId)] =
            [@ EXCEPT !.active = TRUE, !.stroke = STROKE_ACTIVE, !.width = 400,
                      !.marker = MARKER_ACTIVE]]
    ELSE cv

\* The class 'active' stays on the line.
removeConnectionHighlightKeepsMark(cv, connectionId) ==
    IF HasLine(cv, connectionId)
    THEN With(FindConnection(cv.connections, Str(connectionId)), LAMBDA connection :
           [cv EXCEPT !.lines[Str(connectionId)] =
              ReapplyStyle([@ EXCEPT !.stroke = STROKE_BASE, !.width = 200,
                                     !.marker = MARKER_BASE],
                           connection)])
    ELSE cv

\* The generic base style alone, the connection's own style not reapplied.
removeConnectionHighlightGeneric(cv, connectionId) ==
    IF HasLine(cv, connectionId)
    THEN [cv EXCEPT !.lines[Str(connectionId)] =
            [@ EXCEPT !.active = FALSE, !.stroke = STROKE_BASE, !.width = 200,
                      !.marker = MARKER_BASE]]
    ELSE cv

\* removeConnectionHighlight(connectionId, 'active')
removeConnectionHighlight(cv, connectionId) ==
    IF HasLine(cv, connectionId)
    THEN With(FindConnection(cv.connections, Str(connectionId)), LAMBDA connection :
           [cv EXCEPT !.lines[Str(connectionId)] =
              ReapplyStyle([@ EXCEPT !.active = FALSE, !.stroke = STROKE_BASE, !.width = 200,
                                     !.marker = MARKER_BASE],
                           connection)])
    ELSE cv

\* clearAllHighlights()
clearAllHighlights(canvas0) ==
    With(canvas0, LAMBDA cv :
      [cv EXCEPT
          !.classes = [id \in DOMAIN cv.classes |->
                          cv.classes[id] \ {"highlighted", "selected", "focused"}],
          !.lines   = [id \in DOMAIN cv.lines |->
                          With(FindConnection(cv.connections, id), LAMBDA connection :
                            ReapplyStyle([cv.lines[id] EXCEPT
                                            !.active = FALSE, !.stroke = STROKE_BASE,
                                            !.width = 200, !.marker = MARKER_BASE,
                                            !.filter = "", !.dash = "", !.offset = "",
                                            !.transition = ""],
                                         connection))]])

(***************************************************************************)
(* animation-system.js.  The animator's fields; the speed is kept in       *)
(* tenths (10 is the speed 1.0).  The flow graph is a function from the    *)
(* `from' keys to the adjacency sequences.                                 *)
(***************************************************************************)
NewAnimator ==
    [animationQueue |-> <<>>, isAnimating |-> FALSE, animationSpeed |-> 10,
     connections |-> <<>>, flowGraph |-> <<>>]

\* The entries pushed for one key, in the order of the connection sequence.
RECURSIVE AdjacencyOf(_, _, _)
AdjacencyOf(connections, key, k) ==
    IF k > Len(connections) THEN <<>>
    ELSE (IF connections[k].from = key
          THEN <<[to |-> connections[k].to, connectionId |-> connections[k].id,
                  label |-> connections[k].label]>>
          ELSE <<>>) \o AdjacencyOf(connections, key, k + 1)

\* buildFlowGraph()
buildFlowGraph(connections) ==
    [key \in {connections[k].from : k \in 1..Len(connections)} |->
        AdjacencyOf(connections, key, 1)]

\* The flow graph is not cleared before it is built: the entries are pushed
\* after those it holds.
initializeKeepsGraph(an, connections) ==
    [an EXCEPT !.connections = connections,
               !.flowGraph =
                   [key \in DOMAIN an.flowGraph \cup DOMAIN buildFlowGraph(connections) |->
                       (IF key \in DOMAIN an.flowGraph THEN an.flowGraph[key] ELSE <<>>)
                           \o AdjacencyOf(connections, key, 1)]]

\* initialize(connections)
initialize(an, connections) ==
    [an EXCEPT !.connections = connections, !.flowGraph = buildFlowGraph(connections)]

\* this.flowGraph.get(objectId) || []
FlowGet(flowGraph, objectId) ==
    IF objectId \in DOMAIN flowGraph THEN flowGraph[objectId] ELSE <<>>

\* The speed is stored as it is given.
setSpeedUnclamped(an, speed) == [an EXCEPT !.animationSpeed = speed]

\* setSpeed(speed), in tenths
setSpeed(an, speed) ==
    [an EXCEPT !.animationSpeed = Max({1, Min({50, speed})})]

\* The timeout of setTimeout(f, ms / this.animationSpeed): whole milliseconds.
Delay(ms, speed) == (ms * 10) \div speed

\* getConnectionType(line)
getConnectionType(an, lineId) ==
    With(FindConnection(an.connections, lineId), LAMBDA connection :
      IF connection = NULL THEN "solid"
      ELSE IF "connectionType" \in DOMAIN connection THEN connection.connectionType
      ELSE "solid")

(***************************************************************************)
(* The world the handlers act on: the animator, the canvas, the pending    *)
(* timers in creation order (each with the time left until it is due),     *)
(* and the record `out' of what the last step did.                         *)
(***************************************************************************)
AddTimer(w, t) == [w EXCEPT !.timers = Append(@, t)]

\* createFlowingEffect(line) with the four effects: the styles written now,
\* the 10 ms timer that moves the dash offset and resetStylesAfterDelay.
\* Geometry-dependent values are kept symbolic.
createFlowingEffect(w0, lineId, runId) ==
    With(w0, LAMBDA w :
    LET line == w.canvas.lines[lineId]
        originalStyles ==
            [strokeDasharray  |-> IF line.dash = "" THEN "none" ELSE line.dash,
             strokeDashoffset |-> IF line.offset = "" THEN "0" ELSE line.offset,
             transition       |-> line.transition,
             strokeWidth      |-> IF line.width = 0 THEN 200 ELSE line.width]
        styled ==
          With(getConnectionType(w.animator, lineId), LAMBDA connectionType :
            CASE connectionType = "dotted" ->
                    [line EXCEPT !.dash = "3, 6", !.linecap = "round", !.offset = "length",
                                 !.transition = "stroke-dashoffset linear"]
              [] connectionType = "dashed" ->
                    [line EXCEPT !.dash = "8, 6", !.offset = "length",
                                 !.transition = "stroke-dashoffset linear"]
              [] connectionType = "double" ->
                    [line EXCEPT !.width = originalStyles.strokeWidth * 2,
                                 !.transition = "stroke-width ease-out, stroke-dashoffset linear",
                                 !.dash = "length * 0.2, length", !.offset = "length"]
              [] OTHER ->
                    [line EXCEPT !.dash = "dashLength, length", !.offset = "length + dashLength",
                                 !.transition = "stroke-dashoffset ease-out", !.filter = GLOW])
        target == IF getConnectionType(w.animator, lineId) \in {"dotted", "dashed"}
                  THEN "-length" ELSE "0"
        w1 == [w EXCEPT !.canvas.lines[lineId] = styled]
        w2 == AddTimer(w1, [kind |-> "offset", due |-> 10, line |-> lineId, value |-> target,
                            stale |-> FALSE, run |-> runId])
    IN  AddTimer(w2, [kind |-> "reset", due |-> (8000 \div w.animator.animationSpeed) + 100,
                      line |-> lineId, originalStyles |-> originalStyles,
                      stale |-> FALSE, run |-> runId]))

\* The callback of the 10 ms timer of an effect.
OffsetCallback(w, t) ==
    IF t.stale \/ t.line \notin DOMAIN w.canvas.lines THEN w
    ELSE [w EXCEPT !.canvas.lines[t.line].offset = t.value]

\* The callback of resetStylesAfterDelay.  setProperty with a camel-case
\* property name sets nothing, so of the saved values only the transition
\* is written back; a saved 'none' or '' clears the property.
resetStylesAfterDelay(w, t) ==
    IF t.stale \/ t.line \notin DOMAIN w.canvas.lines THEN w
    ELSE LET o == t.originalStyles
             l0 == w.canvas.lines[t.line]
             l1 == [l0 EXCEPT
                      !.dash       = IF o.strokeDasharray \in {"none", ""} THEN "" ELSE @,
                      !.offset     = IF o.strokeDashoffset \in {"none", ""} THEN "" ELSE @,
                      !.transition = o.transition,
                      !.filter     = ""]
             l2 == [l1 EXCEPT !.stroke = IF @ = "" THEN STROKE_BASE ELSE @,
                              !.width  = IF @ = 0 THEN 200 ELSE @]
         IN  [w EXCEPT !.canvas.lines[t.line] = l2]

\* The highlights left in place.
stopAnimationKeepsHighlights(w) ==
    [w EXCEPT !.animator.isAnimating = FALSE, !.animator.animationQueue = <<>>]

\* stopAnimation()
stopAnimation(w) ==
    With(clearAllHighlights(w.canvas), LAMBDA cleared :
      [w EXCEPT
         !.animator.isAnimating = FALSE,
         !.animator.animationQueue = <<>>,
         !.canvas = [cleared EXCEPT
                       !.lines = [id \in DOMAIN cleared.lines |->
                                    [cleared.lines[id] EXCEPT
                                        !.transition = "", !.dash = "", !.offset = ""]]]])

(***************************************************************************)
(* A run is one call of startFlowAnimation or animateAllFlows.  Between    *)
(* two suspensions its code runs without interruption; while it is         *)
(* suspended it is the timer it waits for, and carries                     *)
(*   outer, starts, k   the outer function, its start points, its loop     *)
(*                      index                                              *)
(*   stack              the animateFlow activations, innermost last: the   *)
(*                      object id, the visited set, the adjacency array    *)
(*                      read after the first delay and the loop index i    *)
(*   pc                 where it is suspended or resumes                   *)
(* and the history fields, which the code does not have:                   *)
(*   id, solo           its number; whether no run was pending at its call *)
(*   via, trail, edges  the connection that led to the current object; the *)
(*                      objects and the connections it has highlighted     *)
(*   stopped            stopAnimation was called while it was pending      *)
(*   halted             ... and no run has begun since                     *)
(*   overtaken          "start" or "all" when that function has begun a    *)
(*                      run while it was pending, else "no"                *)
(*   threw              an exception ended it                              *)
(*   started, effectDone, returned   per activation: the connections whose *)
(*                      effect it started, how many effects have resolved, *)
(*                      how many recursive calls have returned             *)
(***************************************************************************)
Suspended == {"d300", "d500", "c600", "c100", "d200", "d1000", "p300", "q300"}

Resumed(pc) ==
    CASE pc = "d300"  -> "after300"
      [] pc = "d500"  -> "ret"
      [] pc = "c600"  -> "after600"
      [] pc = "c100"  -> "after100"
      [] pc = "d200"  -> "after200"
      [] pc = "d1000" -> "after1000"
      [] pc = "p300"  -> "afterP300"
      [] pc = "q300"  -> "afterQ300"

Frame(objectId, visitedObjects) ==
    [objectId |-> objectId, visited |-> visitedObjects, outgoing |-> <<>>, i |-> 1,
     started |-> <<>>, effectDone |-> 0, returned |-> 0]

Top(r) == r.stack[Len(r.stack)]
SetTop(r, f) == [r EXCEPT !.stack[Len(r.stack)] = f]
Push(r, f) == [r EXCEPT !.stack = Append(@, f)]
Pop(r) == [r EXCEPT !.stack = SubSeq(@, 1, Len(@) - 1)]

\* The record of a rendering command a run issues.
Log(w, r, cmd, id) ==
    [w EXCEPT !.out.cmds = Append(@, [cmd |-> cmd, id |-> id, run |-> r.id, via |-> r.via,
                                       outer |-> r.outer, halted |-> r.halted,
                                       overtaken |-> r.overtaken])]

Goto(m, pc) == [m EXCEPT !.r.pc = pc]

\* await this.delay(ms / this.animationSpeed), and the timers of animateConnection
Suspend(m, pc, ms) ==
    With(m, LAMBDA n : [n EXCEPT !.r.pc = pc, !.r.due = Delay(ms, n.w.animator.animationSpeed)])

\* The cancellation checks left out.
CancelledNever(w) == FALSE

\* !this.isAnimating
Cancelled(w) == ~w.animator.isAnimating

\* The visited check left out.
VisitedHasNothing(visitedObjects, objectId) == FALSE

\* visitedObjects.has(objectId)
VisitedHas(visitedObjects, objectId) == objectId \in visitedObjects

\* The set passed on without a copy: the callee's additions stay.
VisitedShared(callerVisited, calleeVisited) == calleeVisited

\* new Set(visitedObjects): the callee adds to a copy, so when it returns
\* the caller's set is as it was.
VisitedAfterCall(callerVisited, calleeVisited) == callerVisited

\* The loop left after its first connection.
NextIndexLeaves(i) == i + 8

\* Every second connection skipped.
NextIndexSkips(i) == i + 2

\* the next iteration of for (const connection of outgoingConnections)
NextIndex(i) == i + 1

\* animateFlow(objectId, visitedObjects), one stretch of it
animateFlow(m) ==
    LET w == m.w
        r == m.r
        f == Top(r)
    IN  CASE r.pc = "enter" ->
                IF Cancelled(w) \/ VisitedHas(f.visited, f.objectId) THEN Goto(m, "ret")
                ELSE IF SelectorThrows(f.objectId) THEN Goto(m, "throw")
                ELSE Suspend(
                        [w |-> Log([w EXCEPT !.canvas = highlightObject(@, f.objectId)],
                                   r, "highlightObject", f.objectId),
                         r |-> [SetTop(r, [f EXCEPT !.visited = @ \cup {f.objectId}])
                                  EXCEPT !.trail = Append(@, f.objectId)]],
                        "d300", 300)
          [] r.pc = "after300" ->
                IF Cancelled(w) THEN Goto(m, "ret")
                ELSE LET outgoingConnections == FlowGet(w.animator.flowGraph, f.objectId)
                     IN  IF Len(outgoingConnections) = 0 THEN Suspend(m, "d500", 500)
                         ELSE [w |-> w,
                               r |-> [SetTop(r, [f EXCEPT !.outgoing = outgoingConnections,
                                                          !.i = 1])
                                        EXCEPT !.pc = "loop"]]
          [] r.pc = "loop" ->
                IF f.i > Len(f.outgoing) \/ Cancelled(w) THEN Goto(m, "ret")
                ELSE Goto(m, "connection")
          [] r.pc = "afterConnection" ->
                IF Cancelled(w) THEN Goto(m, "ret")
                ELSE [w |-> w,
                      r |-> [Push(r, Frame(f.outgoing[f.i].to, f.visited))
                               EXCEPT !.pc = "enter",
                                      !.via = f.outgoing[f.i].connectionId]]
          [] r.pc = "afterFlow" ->
                LET g == [f EXCEPT !.returned = @ + 1]
                IN  IF Len(f.outgoing) > 1
                    THEN Suspend([w |-> w, r |-> SetTop(r, g)], "d200", 200)
                    ELSE [w |-> w,
                          r |-> [SetTop(r, [g EXCEPT !.i = NextIndex(@)]) EXCEPT !.pc = "loop"]]
          [] r.pc = "after200" ->
                [w |-> w,
                 r |-> [SetTop(r, [f EXCEPT !.i = NextIndex(@)]) EXCEPT !.pc = "loop"]]
          [] r.pc = "ret" ->
                LET r1 == Pop(r)
                IN  IF Len(r1.stack) > 0
                    THEN [w |-> w,
                          r |-> [SetTop(r1, [Top(r1) EXCEPT
                                               !.visited = VisitedAfterCall(@, f.visited)])
                                   EXCEPT !.pc = "afterFlow"]]
                    ELSE [w |-> w,
                          r |-> [r1 EXCEPT !.pc = IF r.outer = "start" THEN "finally"
                                                  ELSE "afterStart"]]

\* animateConnection(connectionId), one stretch of it
animateConnection(m) ==
    LET w == m.w
        r == m.r
        f == Top(r)
        connectionId == f.outgoing[f.i].connectionId
    IN  CASE r.pc = "connection" ->
                IF Cancelled(w) THEN Goto(m, "afterConnection")
                ELSE IF SelectorThrows(connectionId) THEN Goto(m, "throw")
                ELSE With(Log([w EXCEPT !.canvas = highlightConnection(@, connectionId)],
                              r, "highlightConnection", connectionId),
                          LAMBDA w1 :
                            Suspend([w |-> IF HasLine(w1.canvas, connectionId)
                                           THEN createFlowingEffect(w1, connectionId, r.id)
                                           ELSE w1,
                                     r |-> [SetTop(r, [f EXCEPT
                                                         !.started = Append(@, connectionId)])
                                              EXCEPT !.edges = Append(@, connectionId)]],
                                    "c600", 600))
          [] r.pc = "after600" -> Suspend(m, "c100", 100)
          [] r.pc = "after100" ->
                [w |-> IF w.animator.isAnimating
                       THEN Log([w EXCEPT !.canvas = removeConnectionHighlight(@, connectionId)],
                                r, "removeConnectionHighlight", connectionId)
                       ELSE w,
                 r |-> [SetTop(r, [f EXCEPT !.effectDone = @ + 1])
                          EXCEPT !.pc = "afterConnection"]]

\* History only: every suspended run learns that stopAnimation was called,
\* or that a run has begun and set isAnimating again.
MarkStopped(w0) ==
    With(w0, LAMBDA w :
      [w EXCEPT !.timers = [i \in 1..Len(w.timers) |->
                              IF w.timers[i].kind = "run"
                              THEN [w.timers[i] EXCEPT !.stopped = TRUE, !.halted = TRUE]
                              ELSE w.timers[i]]])

MarkOvertaken(w0, outer) ==
    With(w0, LAMBDA w :
      [w EXCEPT !.timers = [i \in 1..Len(w.timers) |->
                              IF w.timers[i].kind = "run"
                              THEN [w.timers[i] EXCEPT !.overtaken = outer, !.halted = FALSE]
                              ELSE w.timers[i]]])

RunPending(timers) == \E i \in 1..Len(timers) : timers[i].kind = "run"

NewRun(id, outer, starts, solo) ==
    [kind |-> "run", due |-> 0, id |-> id, outer |-> outer, starts |-> starts, k |-> 1,
     stack |-> <<>>, path |-> <<>>, pc |-> "call", via |-> NULL, trail |-> <<>>,
     edges |-> <<>>,
     stopped |-> FALSE, halted |-> FALSE, overtaken |-> "no", solo |-> solo,
     threw |-> FALSE]

\* if (this.isAnimating) this.stopAnimation(); this.isAnimating = true;
\* this.canvas.clearAllHighlights();
BeginRun(w, outer) ==
    With(MarkOvertaken(IF w.animator.isAnimating THEN MarkStopped(stopAnimation(w)) ELSE w,
                       outer),
         LAMBDA w2 : [w2 EXCEPT !.animator.isAnimating = TRUE,
                                !.canvas = clearAllHighlights(w2.canvas)])

\* The flag left set.
FinallyKeepsFlag(an) == an

\* finally { this.isAnimating = false; }
Finally(an) == [an EXCEPT !.isAnimating = FALSE]

\* startFlowAnimation(startObjectId), one stretch of it
startFlowAnimation(m) ==
    LET w == m.w
        r == m.r
    IN  CASE r.pc = "call" ->
                [w |-> BeginRun(w, r.outer),
                 r |-> [Push(r, Frame(r.starts[1], {})) EXCEPT !.pc = "enter"]]
          [] r.pc = "throw" ->
                [w |-> [w EXCEPT !.out.caught = TRUE],
                 r |-> [r EXCEPT !.stack = <<>>, !.threw = TRUE, !.pc = "finally"]]
          [] r.pc = "finally" ->
                [w |-> [w EXCEPT !.animator = Finally(@)], r |-> [r EXCEPT !.pc = "end"]]

RECURSIVE Discovered(_, _, _)
\* allObjectIds, in insertion order
Discovered(connections, k, acc) ==
    IF k > Len(connections) THEN acc
    ELSE LET has(q, x) == \E j \in 1..Len(q) : q[j] = x
             a1 == IF has(acc, connections[k].from) THEN acc
                   ELSE Append(acc, connections[k].from)
             a2 == IF has(a1, connections[k].to) THEN a1 ELSE Append(a1, connections[k].to)
         IN  Discovered(connections, k + 1, a2)

\* The start points in the reverse of their order.
StartingPointsReversed(connections) ==
    LET allObjectIds        == Discovered(connections, 1, <<>>)
        objectsWithIncoming == {connections[k].to : k \in 1..Len(connections)}
        NoIncoming(id)      == id \notin objectsWithIncoming
        startingPoints      == SelectSeq(allObjectIds, NoIncoming)
    IN  IF Len(startingPoints) = 0 /\ Len(allObjectIds) > 0
        THEN <<allObjectIds[1]>>
        ELSE [i \in 1..Len(startingPoints) |-> startingPoints[Len(startingPoints) + 1 - i]]

\* startingPoints of animateAllFlows
StartingPoints(connections) ==
    LET allObjectIds        == Discovered(connections, 1, <<>>)
        objectsWithIncoming == {connections[k].to : k \in 1..Len(connections)}
        NoIncoming(id)      == id \notin objectsWithIncoming
        startingPoints      == SelectSeq(allObjectIds, NoIncoming)
    IN  IF Len(startingPoints) = 0 /\ Len(allObjectIds) > 0
        THEN <<allObjectIds[1]>>
        ELSE startingPoints

\* animateAllFlows(), one stretch of it
animateAllFlows(m) ==
    LET w == m.w
        r == m.r
    IN  CASE r.pc = "call" ->
                [w |-> BeginRun(w, r.outer),
                 r |-> [r EXCEPT !.starts = StartingPoints(w.animator.connections),
                                 !.k = 1, !.pc = "allLoop"]]
          [] r.pc = "allLoop" ->
                IF r.k > Len(r.starts) \/ Cancelled(w) THEN Goto(m, "allEnd")
                ELSE [w |-> w,
                      r |-> [Push(r, Frame(r.starts[r.k], {}))
                               EXCEPT !.pc = "enter", !.via = NULL]]
          [] r.pc = "afterStart" ->
                IF Len(r.starts) > 1 THEN Suspend(m, "d1000", 1000)
                ELSE [w |-> w, r |-> [r EXCEPT !.k = @ + 1, !.pc = "allLoop"]]
          [] r.pc = "after1000" ->
                [w |-> [w EXCEPT !.canvas = clearAllHighlights(@)],
                 r |-> [r EXCEPT !.k = @ + 1, !.pc = "allLoop"]]
          [] r.pc = "allEnd" ->
                [w |-> [w EXCEPT !.animator.isAnimating = FALSE],
                 r |-> [r EXCEPT !.pc = "end"]]
          [] r.pc = "throw" ->
                \* no handler: the promise of animateAllFlows is rejected
                [w |-> [w EXCEPT !.out.threw = TRUE],
                 r |-> [r EXCEPT !.stack = <<>>, !.threw = TRUE, !.pc = "end"]]

RECURSIVE findPathScanPushFront(_, _, _, _, _, _)
\* The targets are put at the front of the queue (unshift for push).
findPathScanPushFront(connections, k, toId, path, queue, visited) ==
    IF k > Len(connections) THEN [found |-> NULL, queue |-> queue]
    ELSE IF connections[k].to = toId
    THEN [found |-> Append(path, toId), queue |-> queue]
    ELSE findPathScanPushFront(connections, k + 1, toId, path,
                               IF connections[k].to \notin visited
                               THEN <<[id |-> connections[k].to,
                                       path |-> Append(path, connections[k].to)]>> \o queue
                               ELSE queue,
                               visited)

RECURSIVE findPathScan(_, _, _, _, _, _)
\* for (const conn of connections) of findPath: the path returned, or the
\* queue after the pushes.
findPathScan(connections, k, toId, path, queue, visited) ==
    IF k > Len(connections) THEN [found |-> NULL, queue |-> queue]
    ELSE IF connections[k].to = toId
    THEN [found |-> Append(path, toId), queue |-> queue]
    ELSE findPathScan(connections, k + 1, toId, path,
                      IF connections[k].to \notin visited
                      THEN Append(queue, [id |-> connections[k].to,
                                          path |-> Append(path, connections[k].to)])
                      ELSE queue,
                      visited)

RECURSIVE findPathLoop(_, _, _, _)
\* while (queue.length > 0) of findPath
findPathLoop(flowGraph, toId, queue, visited) ==
    IF Len(queue) = 0 THEN NULL
    ELSE IF Head(queue).id \in visited
    THEN findPathLoop(flowGraph, toId, Tail(queue), visited)
    ELSE With(findPathScan(FlowGet(flowGraph, Head(queue).id), 1, toId, Head(queue).path,
                           Tail(queue), visited \cup {Head(queue).id}),
              LAMBDA scan :
                IF scan.found # NULL THEN scan.found
                ELSE findPathLoop(flowGraph, toId, scan.queue,
                                  visited \cup {Head(queue).id}))

\* The first connection of the adjacency array taken instead of the search.
findPathFirstEdge(flowGraph, fromId, toId) ==
    IF fromId = toId THEN <<fromId>>
    ELSE IF Len(FlowGet(flowGraph, fromId)) = 0 THEN NULL
    ELSE <<fromId, FlowGet(flowGraph, fromId)[1].to>>

\* findPath(fromId, toId); null is NULL
findPath(flowGraph, fromId, toId) ==
    IF fromId = toId THEN <<fromId>>
    ELSE findPathLoop(flowGraph, toId, <<[id |-> fromId, path |-> <<fromId>>]>>, {})

RECURSIVE traverse(_, _, _)
RECURSIVE traverseEach(_, _, _, _)
\* traverse(id) of previewPath: path and visited are one list, in push order
traverse(flowGraph, id, path) ==
    IF \E i \in 1..Len(path) : path[i] = id THEN path
    ELSE traverseEach(flowGraph, FlowGet(flowGraph, id), 1, Append(path, id))
\* connections.forEach(conn => traverse(conn.to))
traverseEach(flowGraph, connections, k, path) ==
    IF k > Len(connections) THEN path
    ELSE traverseEach(flowGraph, connections, k + 1,
                      traverse(flowGraph, connections[k].to, path))

\* The visited check left out of the top call only: the start is listed
\* again when an edge leads back to it.
previewPathRevisits(flowGraph, objectId) ==
    traverseEach(flowGraph, FlowGet(flowGraph, objectId), 1, <<objectId>>)
        \o (IF \E k \in 1..Len(FlowGet(flowGraph, objectId)) :
                  FlowGet(flowGraph, objectId)[k].to = objectId
            THEN <<objectId>> ELSE <<>>)

\* previewPath(objectId)
previewPath(flowGraph, objectId) == traverse(flowGraph, objectId, <<>>)

\* The connection looked for from the next node to the current one.
FindBetweenReversed(connections, currentId, nextId) ==
    With({k \in 1..Len(connections) :
            connections[k].from = nextId /\ connections[k].to = currentId},
         LAMBDA K : IF K = {} THEN NULL ELSE connections[Min(K)])

\* this.connections.find(conn => conn.from === currentId && conn.to === nextId)
FindBetween(connections, currentId, nextId) ==
    With({k \in 1..Len(connections) :
             connections[k].from = currentId /\ connections[k].to = nextId},
         LAMBDA K : IF K = {} THEN NULL ELSE connections[Min(K)])

\* highlightPath(fromId, toId), one stretch of it; starts is <<fromId, toId>>
highlightPath(m) ==
    LET w == m.w
        r == m.r
    IN  CASE r.pc = "call" ->
                With(findPath(w.animator.flowGraph, r.starts[1], r.starts[2]), LAMBDA path :
                  IF path = NULL \/ Len(path) < 2 THEN Goto(m, "end")
                  ELSE [w |-> [w EXCEPT !.canvas = clearAllHighlights(@)],
                        r |-> [r EXCEPT !.path = path, !.k = 1, !.pc = "pathLoop"]])
          [] r.pc = "pathLoop" ->
                IF r.k > Len(r.path) - 1 THEN Goto(m, "pathLast")
                ELSE With(FindBetween(w.animator.connections, r.path[r.k], r.path[r.k + 1]),
                          LAMBDA connection :
                  IF connection = NULL
                  THEN [w |-> w, r |-> [r EXCEPT !.k = @ + 1]]
                  ELSE IF SelectorThrows(r.path[r.k]) THEN Goto(m, "throw")
                  ELSE Suspend(
                         [w |-> Log([w EXCEPT !.canvas = highlightObject(@, r.path[r.k])],
                                    r, "highlightObject", r.path[r.k]),
                          r |-> [r EXCEPT !.trail = Append(@, r.path[r.k]),
                                          !.via = connection.id]],
                         "p300", 300))
          [] r.pc = "afterP300" ->
                IF SelectorThrows(r.via) THEN Goto(m, "throw")
                ELSE Suspend(
                       [w |-> Log([w EXCEPT !.canvas = highlightConnection(@, r.via)],
                                  r, "highlightConnection", r.via),
                        r |-> [r EXCEPT !.edges = Append(@, r.via)]],
                       "q300", 300)
          [] r.pc = "afterQ300" ->
                [w |-> w, r |-> [r EXCEPT !.k = @ + 1, !.pc = "pathLoop"]]
          [] r.pc = "pathLast" ->
                IF SelectorThrows(r.starts[2]) THEN Goto(m, "throw")
                ELSE [w |-> Log([w EXCEPT !.canvas = highlightObject(@, r.starts[2])],
                                r, "highlightObject", r.starts[2]),
                      r |-> [r EXCEPT !.trail = Append(@, r.starts[2]), !.pc = "end"]]
          [] r.pc = "throw" ->
                \* no handler: the promise of highlightPath is rejected
                [w |-> [w EXCEPT !.out.threw = TRUE],
                 r |-> [r EXCEPT !.threw = TRUE, !.pc = "end"]]

\* The code the run executes next.
Step(m) ==
    IF m.r.pc \in {"enter", "after300", "loop", "afterConnection", "afterFlow", "after200", "ret"}
    THEN animateFlow(m)
    ELSE IF m.r.pc \in {"connection", "after600", "after100"} THEN animateConnection(m)
    ELSE IF m.r.outer = "start" THEN startFlowAnimation(m)
    ELSE IF m.r.outer = "path" THEN highlightPath(m)
    ELSE animateAllFlows(m)

RECURSIVE Run(_)
\* The run executes up to its next suspension or to its end.
Run(m) ==
    With(m, LAMBDA n : IF n.r.pc \in Suspended \cup {"end"} THEN n ELSE Run(Step(n)))

\* The run is left waiting for its timer, or its end is recorded.
Settled(m) ==
    IF m.r.pc = "end"
    THEN [m.w EXCEPT !.out.done = [id |-> m.r.id, outer |-> m.r.outer, starts |-> m.r.starts,
                                   trail |-> m.r.trail, edges |-> m.r.edges,
                                   stopped |-> m.r.stopped,
                                   halted |-> m.r.halted,
                                   overtaken |-> m.r.overtaken, solo |-> m.r.solo,
                                   threw |-> m.r.threw]]
    ELSE AddTimer(m.w, m.r)

Settle(m) == With(m, LAMBDA n : Settled(n))

\* A timer callback.
Callback(w, t) ==
    CASE t.kind = "run"    -> Settle(Run([w |-> w, r |-> [t EXCEPT !.pc = Resumed(t.pc)]]))
      [] t.kind = "offset" -> OffsetCallback(w, t)
      [] t.kind = "reset"  -> resetStylesAfterDelay(w, t)

\* The timer that fires next: the earliest due, the first created among equals.
NextTimer(timers) ==
    Min({i \in 1..Len(timers) : \A j \in 1..Len(timers) : timers[i].due <= timers[j].due})

\* The timers left when timer i fires, with the time that has passed taken off.
Elapsed(timers, i) ==
    [j \in 1..(Len(timers) - 1) |->
        LET t == timers[IF j < i THEN j ELSE j + 1]
        IN  [t EXCEPT !.due = @ - timers[i].due]]

\* What a step did: the rendering commands issued, whether an exception was
\* caught in startFlowAnimation or left animateAllFlows, the run that ended,
\* and whether initialize was called ("idle" or "animating": the value of
\* isAnimating at the call).
NoOut == [cmds |-> <<>>, caught |-> FALSE, threw |-> FALSE, done |-> NULL,
          initialized |-> "no", call |-> NULL, result |-> NULL]

(***************************************************************************)
(* The diagrams the engine is driven with: a 3-cycle, a diamond, a         *)
(* connection to a quoted name, and a text with two sources, an            *)
(* activation, a double arrow and a dotted self-loop.  A text is its       *)
(* sequence of lines, a line its sequence of characters.                   *)
(***************************************************************************)
CYCLE3 ==
    << <<"A", " ", "-", ">", " ", "B", ":", " ", "x">>,
       <<"B", " ", "-", ">", " ", "C", ":", " ", "y">>,
       <<"C", " ", "-", ">", " ", "A", ":", " ", "z">> >>

DIAMOND ==
    << <<"A", " ", "-", ">", " ", "B", ":", " ", "p">>,
       <<"A", " ", "-", ">", " ", "C", ":", " ", "q">>,
       <<"B", " ", "-", ">", " ", "D", ":", " ", "r">>,
       <<"C", " ", "-", ">", " ", "D", ":", " ", "s">> >>

QUOTED ==
    << <<"A", " ", "-", ">", " ", "\"", "Q", "\"", ":", " ", "x">> >>

MIXED ==
    << <<"U", " ", "-", ">", " ", "T", ":", " ", "c">>,
       <<"a", "c", "t", "i", "v", "a", "t", "e", " ", "T">>,
       <<"S", " ", "-", ">", ">", " ", "T", ":", " ", "b">>,
       <<"T", " ", ".", ".", ">", " ", "T", ":", " ", "a">> >>

\* A cycle behind an activation.
ACTIVATED ==
    << <<"a", "c", "t", "i", "v", "a", "t", "e", " ", "A">>,
       <<"A", " ", "-", ">", " ", "B", ":", " ", "x">>,
       <<"B", " ", "-", ">", " ", "A", ":", " ", "y">> >>

Texts == {CYCLE3, DIAMOND, QUOTED, MIXED, ACTIVATED}

\* PlantUMLParser.getSampleDiagram().  Every Hangul syllable of the samples
\* is written ~: one character that is no word character, no white space,
\* no quote and no colon.
getSampleDiagram ==
    << <<"@", "s", "t", "a", "r", "t", "u", "m", "l">>,
       <<"a", "c", "t", "o", "r", " ", "\"", "~", "~", "\"", " ", "a", "s", " ", "C", "u", "s", "t", "o", "m", "e", "r">>,
       <<"p", "a", "r", "t", "i", "c", "i", "p", "a", "n", "t", " ", "\"", "~", " ", "~", "~", "~", "~", "~", "~", "\"", " ", "a", "s", " ", "W", "e", "b", "A", "p", "p">>,
       <<"p", "a", "r", "t", "i", "c", "i", "p", "a", "n", "t", " ", "\"", "A", "P", "I", " ", "~", "~", "~", "~", "~", "\"", " ", "a", "s", " ", "G", "a", "t", "e", "w", "a", "y">>,
       <<"p", "a", "r", "t", "i", "c", "i", "p", "a", "n", "t", " ", "\"", "~", "~", " ", "~", "~", "~", "\"", " ", "a", "s", " ", "A", "u", "t", "h", "S", "e", "r", "v", "i", "c", "e">>,
       <<"d", "a", "t", "a", "b", "a", "s", "e", " ", "\"", "~", "~", "~", " ", "D", "B", "\"", " ", "a", "s", " ", "U", "s", "e", "r", "D", "B">>,
       <<"p", "a", "r", "t", "i", "c", "i", "p", "a", "n", "t", " ", "\"", "~", "~", " ", "~", "~", "~", "\"", " ", "a", "s", " ", "O", "r", "d", "e", "r", "S", "e", "r", "v", "i", "c", "e">>,
       <<"d", "a", "t", "a", "b", "a", "s", "e", " ", "\"", "~", "~", " ", "D", "B", "\"", " ", "a", "s", " ", "O", "r", "d", "e", "r", "D", "B">>,
       <<"p", "a", "r", "t", "i", "c", "i", "p", "a", "n", "t", " ", "\"", "~", "~", " ", "~", "~", "~", "\"", " ", "a", "s", " ", "P", "a", "y", "m", "e", "n", "t", "S", "e", "r", "v", "i", "c", "e">>,
       <<"p", "a", "r", "t", "i", "c", "i", "p", "a", "n", "t", " ", "\"", "~", "~", " ", "~", "~", "~", "\"", " ", "a", "s", " ", "N", "o", "t", "i", "f", "i", "c", "a", "t", "i", "o", "n", "S", "e", "r", "v", "i", "c", "e">>,
       <<>>,
       <<"C", "u", "s", "t", "o", "m", "e", "r", " ", "-", ">", " ", "W", "e", "b", "A", "p", "p", ":", " ", "~", "~", "~", " ", "~", "~">>,
       <<"W", "e", "b", "A", "p", "p", " ", "-", ">", " ", "G", "a", "t", "e", "w", "a", "y", ":", " ", "~", "~", " ", "A", "P", "I", " ", "~", "~">>,
       <<"G", "a", "t", "e", "w", "a", "y", " ", "-", ">", " ", "A", "u", "t", "h", "S", "e", "r", "v", "i", "c", "e", ":", " ", "~", "~", "~", " ", "~", "~">>,
       <<"A", "u", "t", "h", "S", "e", "r", "v", "i", "c", "e", " ", "-", ">", " ", "U", "s", "e", "r", "D", "B", ":", " ", "~", "~", "~", " ", "~", "~", " ", "~", "~">>,
       <<"U", "s", "e", "r", "D", "B", " ", "-", "-", ">", " ", "A", "u", "t", "h", "S", "e", "r", "v", "i", "c", "e", ":", " ", "~", "~", "~", " ", "~", "~", "~">>,
       <<"A", "u", "t", "h", "S", "e", "r", "v", "i", "c", "e", " ", "-", "-", ">", " ", "G", "a", "t", "e", "w", "a", "y", ":", " ", "~", "~", " ", "~", "~">>,
       <<"G", "a", "t", "e", "w", "a", "y", " ", "-", "-", ">", " ", "W", "e", "b", "A", "p", "p", ":", " ", "~", "~", "~", " ", "~", "~">>,
       <<"W", "e", "b", "A", "p", "p", " ", "-", "-", ">", " ", "C", "u", "s", "t", "o", "m", "e", "r", ":", " ", "~", "~", "~", "~", " ", "~", "~">>,
       <<>>,
       <<"C", "u", "s", "t", "o", "m", "e", "r", " ", "-", ">", " ", "W", "e", "b", "A", "p", "p", ":", " ", "~", "~", " ", "~", "~">>,
       <<"W", "e", "b", "A", "p", "p", " ", "-", ">", " ", "G", "a", "t", "e", "w", "a", "y", ":", " ", "~", "~", " ", "~", "~", " ", "A", "P", "I">>,
       <<"G", "a", "t", "e", "w", "a", "y", " ", "-", ">", " ", "O", "r", "d", "e", "r", "S", "e", "r", "v", "i", "c", "e", ":", " ", "~", "~", " ", "~", "~">>,
       <<"O", "r", "d", "e", "r", "S", "e", "r", "v", "i", "c", "e", " ", "-", ">", " ", "O", "r", "d", "e", "r", "D", "B", ":", " ", "~", "~", " ", "~", "~", " ", "~", "~">>,
       <<"O", "r", "d", "e", "r", "D", "B", " ", "-", "-", ">", " ", "O", "r", "d", "e", "r", "S", "e", "r", "v", "i", "c", "e", ":", " ", "~", "~", " ", "~", "~">>,
       <<"O", "r", "d", "e", "r", "S", "e", "r", "v", "i", "c", "e", " ", "-", ">", " ", "P", "a", "y", "m", "e", "n", "t", "S", "e", "r", "v", "i", "c", "e", ":", " ", "~", "~", " ", "~", "~", " ", "~", "~">>,
       <<"P", "a", "y", "m", "e", "n", "t", "S", "e", "r", "v", "i", "c", "e", " ", "-", "-", ">", " ", "O", "r", "d", "e", "r", "S", "e", "r", "v", "i", "c", "e", ":", " ", "~", "~", " ", "~", "~">>,
       <<"O", "r", "d", "e", "r", "S", "e", "r", "v", "i", "c", "e", " ", "-", ">", " ", "N", "o", "t", "i", "f", "i", "c", "a", "t", "i", "o", "n", "S", "e", "r", "v", "i", "c", "e", ":", " ", "~", "~", " ", "~", "~", " ", "~", "~">>,
       <<"N", "o", "t", "i", "f", "i", "c", "a", "t", "i", "o", "n", "S", "e", "r", "v", "i", "c", "e", " ", "-", "-", ">", " ", "C", "u", "s", "t", "o", "m", "e", "r", ":", " ", "~", "~", "~", "/", "S", "M", "S", " ", "~", "~">>,
       <<"O", "r", "d", "e", "r", "S", "e", "r", "v", "i", "c", "e", " ", "-", "-", ">", " ", "G", "a", "t", "e", "w", "a", "y", ":", " ", "~", "~", " ", "~", "~", " ", "~", "~">>,
       <<"G", "a", "t", "e", "w", "a", "y", " ", "-", "-", ">", " ", "W", "e", "b", "A", "p", "p", ":", " ", "~", "~", " ", "~", "~">>,
       <<"W", "e", "b", "A", "p", "p", " ", "-", "-", ">", " ", "C", "u", "s", "t", "o", "m", "e", "r", ":", " ", "~", "~", " ", "~", "~", " ", "~", "~">>,
       <<"@", "e", "n", "d", "u", "m", "l">> >>

\* PlantUMLParser.getAdvancedSamples().simple
getAdvancedSamplesSimple ==
    << <<"@", "s", "t", "a", "r", "t", "u", "m", "l">>,
       <<"A", "l", "i", "c", "e", " ", "-", ">", " ", "B", "o", "b", ":", " ", "~", "~", "~", "~", "~", "!">>,
       <<"B", "o", "b", " ", "-", "-", ">", " ", "A", "l", "i", "c", "e", ":", " ", "~", "~", "~", "~", "~">>,
       <<"A", "l", "i", "c", "e", " ", "-", ">", ">", " ", "B", "o", "b", ":", " ", "~", "~", "~", " ", "~", "~">>,
       <<"B", "o", "b", " ", ".", ".", ">", " ", "A", "l", "i", "c", "e", ":", " ", "~", "~", " ", "~", "~">>,
       <<"@", "e", "n", "d", "u", "m", "l">> >>


\* The canvas size main.js lays diagrams out for.
CANVAS_WIDTH  == 800
CANVAS_HEIGHT == 600

SMALL_WIDTH == 400

SMALL_HEIGHT == 300

\* parse, autoLayout: the diagram generateDiagram gives to render and initialize.
Diagram(text) ==
    With(parse(text), LAMBDA parsed :
      [objects |-> autoLayout(parsed.objects, CANVAS_WIDTH, CANVAS_HEIGHT),
       connections |-> parsed.connections])

\* The harness starts at most MaxRuns runs and changes the speed at most
\* MaxSpeedChanges times, and starts runs from the first MaxStartIndex objects.
MaxRuns == 2
MaxSpeedChanges == 1
MaxStartIndex == 2
Speeds == {10, 20}

\* The application is driven by at most MaxUserActions user actions and
\* MaxAppFires timer callbacks.
MaxUserActions == 3
MaxAppFires == 7

\* The fields of PlantUMLAnimator besides parser, canvas and animator: the
\* text of the textarea, the diagram shown, the auto-animate checkbox, what
\* updateButtonStates last set, the type of the last message, the value of
\* the speed slider in tenths and the text beside it.
NewApp ==
    [input |-> <<>>, currentDiagram |-> NULL, autoAnimate |-> TRUE,
     buttons |-> NULL, message |-> "", speedSlider |-> 10, speedValue |-> <<>>]

\* animator, canvas, app: the three objects; timers: the pending timers;
\* out: what the last step did; runs: the runs begun so far; fired flips
\* whenever a timer fires; speedChanges and used count what the harness did;
\* parser: the PlantUMLParser during a parse, which the engine and the
\* application, given whole diagrams, leave as it is constructed.
VARIABLES animator, canvas, app, timers, out, runs, speedChanges, fired, used, parser

vars == <<animator, canvas, app, timers, out, runs, speedChanges, fired, used, parser>>

World ==
    [animator |-> animator, canvas |-> canvas, app |-> app, timers |-> timers,
     out |-> out, runs |-> runs]

\* The world after a handler has run.
Becomes(w) ==
    \E after \in {w} :
        /\ animator' = after.animator
        /\ canvas' = after.canvas
        /\ app' = after.app
        /\ timers' = after.timers
        /\ out' = after.out
        /\ runs' = after.runs

Began == [World EXCEPT !.out = NoOut]

NoneUsed == [actions |-> 0, fires |-> 0, stop |-> FALSE]

\* new CanvasEngine(...), new AnimationSystem(canvas)
Init ==
    /\ animator = NewAnimator
    /\ canvas = EmptyCanvas
    /\ app = NewApp
    /\ timers = <<>>
    /\ out = NoOut
    /\ runs = 0
    /\ speedChanges = 0
    /\ fired = FALSE
    /\ used = NoneUsed
    /\ parser = NewParser

\* The lines of a cleared canvas are detached: timers still holding them
\* no longer reach a line of the canvas.
Detach(timers0) ==
    With(timers0, LAMBDA ts :
      [i \in 1..Len(ts) |->
          IF ts[i].kind \in {"offset", "reset"} THEN [ts[i] EXCEPT !.stale = TRUE] ELSE ts[i]])

\* canvas.render(diagram); animator.initialize(diagram.connections)
Show(w, diagram) ==
    [w EXCEPT !.canvas = render(@, diagram),
              !.timers = Detach(@),
              !.animator = initialize(@, diagram.connections),
              !.out.initialized = IF w.animator.isAnimating THEN "animating" ELSE "idle"]

\* A call of startFlowAnimation(startObjectId), up to its first suspension.
CallStartFlowAnimation(w, startObjectId) ==
    Settle(Run([w |-> [w EXCEPT !.runs = @ + 1],
                r |-> NewRun(w.runs + 1, "start", <<startObjectId>>,
                             ~RunPending(w.timers))]))

\* A call of animateAllFlows(), up to its first suspension.
CallAnimateAllFlows(w) ==
    Settle(Run([w |-> [w EXCEPT !.runs = @ + 1],
                r |-> NewRun(w.runs + 1, "all", <<>>, ~RunPending(w.timers))]))

\* A diagram is shown, once, before the first run.
Load(text) ==
    /\ runs = 0
    /\ Len(canvas.objects) = 0
    /\ \E w \in {Began} : Becomes(Show(w, Diagram(text)))
    /\ UNCHANGED <<speedChanges, fired, used, parser>>

\* The objects the harness starts runs from.
StartIds(cv) == {cv.objects[k].id : k \in 1..Min({MaxStartIndex, Len(cv.objects)})}

StartChoices == UNION {StartIds(Diagram(text)) : text \in Texts}

StartFlowAnimation(startObjectId) ==
    /\ startObjectId \in StartIds(canvas)
    /\ runs < MaxRuns
    /\ \E w \in {Began} : Becomes(CallStartFlowAnimation(w, startObjectId))
    /\ UNCHANGED <<speedChanges, fired, used, parser>>

AnimateAllFlows ==
    /\ runs < MaxRuns
    /\ \E w \in {Began} : Becomes(CallAnimateAllFlows(w))
    /\ UNCHANGED <<speedChanges, fired, used, parser>>

StopAnimation ==
    /\ \E w \in {Began} : Becomes(MarkStopped(stopAnimation(w)))
    /\ UNCHANGED <<speedChanges, fired, used, parser>>

SetSpeed(speed) ==
    /\ speedChanges < MaxSpeedChanges
    /\ speedChanges' = speedChanges + 1
    /\ Becomes([Began EXCEPT !.animator = setSpeed(@, speed)])
    /\ UNCHANGED <<fired, used, parser>>

\* The next timer fires and its callback runs.
FireTimer ==
    /\ Len(timers) > 0
    /\ \E i \in {NextTimer(timers)} :
          \E w \in {[Began EXCEPT !.timers = Elapsed(timers, i)]} :
             Becomes(Callback(w, timers[i]))
    /\ fired' = ~fired
    /\ UNCHANGED <<speedChanges, used, parser>>

Next ==
    \/ \E text \in Texts : Load(text)
    \/ \E id \in StartChoices : StartFlowAnimation(id)
    \/ AnimateAllFlows
    \/ StopAnimation
    \/ \E speed \in Speeds : SetSpeed(speed)
    \/ FireTimer

Spec == Init /\ [][Next]_vars

\* A single run of startFlowAnimation.
StartAlone(startObjectId) ==
    /\ runs = 0
    /\ StartFlowAnimation(startObjectId)

NextAlone ==
    \/ \E text \in Texts : Load(text)
    \/ \E id \in StartChoices : StartAlone(id)
    \/ StopAnimation
    \/ \E speed \in Speeds : SetSpeed(speed)
    \/ FireTimer

\* A step of FireTimer, told by fired.
TimerFires == Len(timers) > 0 /\ fired' = ~fired

\* One run, and every scheduled timer eventually fires.
FairSpec == Init /\ [][NextAlone]_vars /\ WF_fired(TimerFires)

\* The speeds setSpeed is called with, in tenths: below, within and above
\* the range it keeps.
WideSpeeds == {0, 1, 10, 20, 50, 70}
MaxSpeedCalls == 2

\* animator.setSpeed(speed), with any number
SetAnySpeed(speed) ==
    /\ speedChanges < MaxSpeedCalls
    /\ speedChanges' = speedChanges + 1
    /\ Becomes([Began EXCEPT !.animator = setSpeed(@, speed),
                             !.out.call = <<"setSpeed", speed>>])
    /\ UNCHANGED <<fired, used, parser>>

NextSpeed ==
    \/ \E text \in Texts : Load(text)
    \/ \E id \in StartChoices : StartAlone(id)
    \/ \E speed \in WideSpeeds : SetAnySpeed(speed)
    \/ FireTimer

\* One run, and setSpeed called with numbers in and out of its range.
SpecSpeed == Init /\ [][NextSpeed]_vars

\* `${speed.toFixed(1)}x` for a speed in tenths
ToFixed1x(speed) == Digits(speed \div 10) \o <<".">> \o Digits(speed % 10) \o <<"x">>

\* The speed goes to the slider and the engine as it is computed.
adjustAnimationSpeedUnclamped(w, delta) ==
    \* the result of Math.max(0.5, Math.min(3.0, ...)) left out
    With(w.app.speedSlider + delta, LAMBDA newSpeed :
      [w EXCEPT !.app.speedSlider = newSpeed,
                !.animator = setSpeed(@, newSpeed),
                !.app.speedValue = ToFixed1x(newSpeed),
                !.app.message = "info"])

\* adjustAnimationSpeed(delta), delta in tenths
adjustAnimationSpeed(w, delta) ==
    With(w.app.speedSlider, LAMBDA currentSpeed :
      With(Max({5, Min({30, currentSpeed + delta})}), LAMBDA newSpeed :
        [w EXCEPT !.app.speedSlider = newSpeed,
                  !.animator = setSpeed(@, newSpeed),
                  !.app.speedValue = ToFixed1x(newSpeed),
                  !.app.message = "info"]))

\* The values of the speed slider, 0.5 to 3.0 in steps of 0.1, in tenths.
SliderValues == 5..30

\* The page is loaded with the slider at any of its values.
InitAdjust ==
    /\ animator = NewAnimator
    /\ canvas = EmptyCanvas
    /\ \E value \in SliderValues :
          app = [NewApp EXCEPT !.speedSlider = value, !.speedValue = ToFixed1x(value)]
    /\ timers = <<>>
    /\ out = NoOut
    /\ runs = 0
    /\ speedChanges = 0
    /\ fired = FALSE
    /\ used = NoneUsed
    /\ parser = NewParser

\* Ctrl/Cmd with + or -: adjustAnimationSpeed(0.1) or (-0.1)
AdjustAnimationSpeed(delta) ==
    /\ Becomes(adjustAnimationSpeed([Began EXCEPT !.out.call = <<"adjustAnimationSpeed", delta>>],
                                    delta))
    /\ UNCHANGED <<speedChanges, fired, used, parser>>

\* The input handler of the slider, moved to value
SlideSpeed(value) ==
    /\ Becomes([Began EXCEPT !.app.speedSlider = value,
                             !.animator = setSpeed(@, value),
                             !.app.speedValue = ToFixed1x(value),
                             !.out.call = <<"input", value>>])
    /\ UNCHANGED <<speedChanges, fired, used, parser>>

NextAdjust ==
    \/ \E delta \in {-1, 1} : AdjustAnimationSpeed(delta)
    \/ \E value \in SliderValues : SlideSpeed(value)
    \/ \E text \in Texts : Load(text)

\* The speed controls of the page.
SpecAdjust == InitAdjust /\ [][NextAdjust]_vars

\* A call of highlightPath(fromId, toId), up to its first suspension.
CallHighlightPath(w, fromId, toId) ==
    Settle(Run([w |-> [w EXCEPT !.runs = @ + 1],
                r |-> NewRun(w.runs + 1, "path", <<fromId, toId>>, ~RunPending(w.timers))]))

PathChoices == UNION {ObjectIds(Diagram(text)) : text \in Texts}

HighlightPath(fromId, toId) ==
    /\ {fromId, toId} \subseteq ObjectIds(canvas)
    /\ runs < MaxRuns
    /\ \E w \in {Began} : Becomes(CallHighlightPath(w, fromId, toId))
    /\ UNCHANGED <<speedChanges, fired, used, parser>>

NextPath ==
    \/ \E text \in Texts : Load(text)
    \/ \E fromId \in PathChoices : \E toId \in PathChoices : HighlightPath(fromId, toId)
    \/ StopAnimation
    \/ \E speed \in Speeds : SetSpeed(speed)
    \/ FireTimer

\* The engine driven by highlightPath and stopAnimation.
SpecPath == Init /\ [][NextPath]_vars

(***************************************************************************)
(* findPath and previewPath on small flow graphs: every sequence of at     *)
(* most MaxEdges connections between three entities, as addConnection      *)
(* builds it, and the connections of the texts above.                      *)
(***************************************************************************)
NodeA == <<"A">>
NodeB == <<"B">>
NodeC == <<"C">>
NodeD == <<"D">>

MaxEdges == 3

GraphNodes == {NodeA, NodeB, NodeC}

EdgeLists == UNION {[1..n -> GraphNodes \X GraphNodes] : n \in 0..MaxEdges}

RECURSIVE ConnectionsOf(_, _, _)
\* addConnection for each pair of the list, in order
ConnectionsOf(edges, k, st) ==
    IF k > Len(edges) THEN st.connections
    ELSE ConnectionsOf(edges, k + 1,
                       addConnection(st, edges[k][1], edges[k][2], <<>>, A_SOLID, "solid"))

\* The four connections of a diamond from A to D in every order, alone and
\* with a connection between B and C before or after them: graphs with two
\* shortest paths.
DiamondEdges == {<<NodeA, NodeB>>, <<NodeA, NodeC>>, <<NodeB, NodeD>>, <<NodeC, NodeD>>}

DiamondOrders ==
    {q \in [1..Cardinality(DiamondEdges) -> DiamondEdges] : \A i, j \in DOMAIN q : q[i] = q[j] => i = j}

TieEdgeLists ==
    DiamondOrders
        \cup {<<e>> \o q : e \in {<<NodeB, NodeC>>, <<NodeC, NodeB>>}, q \in DiamondOrders}
        \cup {q \o <<e>> : e \in {<<NodeB, NodeC>>, <<NodeC, NodeB>>}, q \in DiamondOrders}

GraphChoices ==
    {ConnectionsOf(edges, 1, NewParser) : edges \in EdgeLists \cup TieEdgeLists}
        \cup {Diagram(text).connections : text \in Texts}

\* The entities of a connection sequence.
NodesOf(connections) ==
    {connections[k].from : k \in 1..Len(connections)}
        \cup {connections[k].to : k \in 1..Len(connections)}

\* new AnimationSystem(canvas); initialize(connections)
InitGraph ==
    /\ \E connections \in GraphChoices : animator = initialize(NewAnimator, connections)
    /\ canvas = EmptyCanvas
    /\ app = NewApp
    /\ timers = <<>>
    /\ out = NoOut
    /\ runs = 0
    /\ speedChanges = 0
    /\ fired = FALSE
    /\ used = NoneUsed
    /\ parser = NewParser

QueryNodes == GraphNodes \cup {NodeD}

\* findPath(fromId, toId) is called and its result kept.
FindPath(fromId, toId) ==
    /\ out' = [NoOut EXCEPT !.call = <<"findPath", fromId, toId>>,
                            !.result = findPath(animator.flowGraph, fromId, toId)]
    /\ UNCHANGED <<animator, canvas, app, timers, runs, speedChanges, fired, used, parser>>

\* previewPath(objectId) is called and its result kept.
PreviewPath(objectId) ==
    /\ out' = [NoOut EXCEPT !.call = <<"previewPath", objectId>>,
                            !.result = previewPath(animator.flowGraph, objectId)]
    /\ UNCHANGED <<animator, canvas, app, timers, runs, speedChanges, fired, used, parser>>

\* The connections of the 3-cycle, as the parser returns them.
CycleGraph == ConnectionsOf(<<<<NodeA, NodeB>>, <<NodeB, NodeC>>, <<NodeC, NodeA>>>>, 1, NewParser)

\* initialize(connections) is called again, with the connection sequence the
\* animator has or with another; the sequence it had is kept as the result.
Initialize(connections) ==
    /\ animator' = initialize(animator, connections)
    /\ out' = [NoOut EXCEPT !.call = <<"initialize">>, !.result = animator.connections]
    /\ UNCHANGED <<canvas, app, timers, runs, speedChanges, fired, used, parser>>

NextGraph ==
    \/ \E fromId \in QueryNodes : \E toId \in QueryNodes : FindPath(fromId, toId)
    \/ \E objectId \in QueryNodes : PreviewPath(objectId)
    \/ \E connections \in {animator.connections, CycleGraph} : Initialize(connections)

SpecGraph == InitGraph /\ [][NextGraph]_vars

(***************************************************************************)
(* parse(plantumlText), call by call: reset() and the lines kept, then     *)
(* parseObjectDefinition for each line, then parseConnection for each.     *)
(***************************************************************************)
\* A connection line `left marker right: label'.
ConnectionLine(left, marker, right, label) ==
    left \o <<" ">> \o marker \o <<" ">> \o right \o <<":", " ">> \o label

\* The markers of connection lines with the kind each stands for.
Markers ==
    { [marker |-> A_SOLID,   kind |-> "solid",          reverse |-> FALSE],
      [marker |-> A_DASHED,  kind |-> "dashed",         reverse |-> FALSE],
      [marker |-> A_RSOLID,  kind |-> "reverse_solid",  reverse |-> TRUE],
      [marker |-> A_RDASHED, kind |-> "reverse_dashed", reverse |-> TRUE],
      [marker |-> A_DOUBLE,  kind |-> "double",         reverse |-> FALSE],
      [marker |-> A_RDOUBLE, kind |-> "reverse_double", reverse |-> TRUE],
      [marker |-> A_DOTTED,  kind |-> "dotted",         reverse |-> FALSE],
      [marker |-> A_RDOTTED, kind |-> "reverse_dotted", reverse |-> TRUE],
      [marker |-> A_DOTS3,   kind |-> "dotted_line",    reverse |-> FALSE] }

Endpoints == { <<NodeA, NodeB>>, <<<<"S", "v", "c">>, <<"D", "b", "1">>>> }

Labels == { <<"h", "i">>, <<"o", "k", " ", "g", "o">> }

\* The one-line texts `A <marker> B: label'.
MarkerCases ==
    { [line    |-> ConnectionLine(e[1], m.marker, e[2], label),
       left    |-> e[1], right |-> e[2], label |-> label,
       marker  |-> m.marker, kind |-> m.kind, reverse |-> m.reverse] :
      m \in Markers, e \in Endpoints, label \in Labels }

SCENARIO ==
    << <<"A", " ", "-", ">", " ", "B", ":", " ", "h", "i">>,
       <<"B", " ", "-", "-", ">", " ", "A", ":", " ", "o", "k">> >>

ALIASED ==
    << <<"a", "c", "t", "o", "r", " ", "\"", "U", "s", "e", "r", "\"", " ", "a", "s", " ", "U">>,
       <<"U", " ", "-", ">", " ", "S", ":", " ", "g", "o">> >>

\* U is declared twice and used, S is used, declared, activated and noted.
REDECLARED ==
    << <<"a", "c", "t", "o", "r", " ", "\"", "U", "s", "e", "r", "\"", " ", "a", "s", " ", "U">>,
       <<"d", "a", "t", "a", "b", "a", "s", "e", " ", "U">>,
       <<"U", " ", "-", ">", " ", "S", ":", " ", "g", "o">>,
       <<"e", "n", "t", "i", "t", "y", " ", "\"", "S", "t", "o", "r", "e", "\"", " ", "a", "s", " ", "S">>,
       <<"a", "c", "t", "i", "v", "a", "t", "e", " ", "S">>,
       <<"n", "o", "t", "e", " ", "l", "e", "f", "t", " ", "U", ":", " ", "n">> >>

\* U is used before it is declared.
USEDFIRST ==
    << <<"U", " ", "<", "-", " ", "S", ":", " ", "g", "o">>,
       <<"a", "c", "t", "o", "r", " ", "U">>,
       <<"@", "e", "n", "d", "u", "m", "l">>,
       <<" ", "c", "o", "n", "t", "r", "o", "l", " ", "S", " ">> >>

\* A line twice, tokens that hold a hyphen, and markers between connections.
REPEATED ==
    << <<"A", " ", "-", ">", " ", "B", ":", " ", "x">>,
       <<"A", " ", "-", ">", " ", "B", ":", " ", "x">>,
       <<"a", "c", "t", "i", "v", "a", "t", "e", " ", "A">>,
       <<"A", "-", "B", " ", "-", ">", " ", "1", ":", " ", "x">>,
       <<"A", " ", "-", ">", " ", "B", "-", "1", ":", " ", "y">>,
       <<"d", "e", "a", "c", "t", "i", "v", "a", "t", "e", " ", "A">> >>

\* Lines no pattern of either pass matches.
UNMATCHED ==
    << <<"h", "e", "l", "l", "o", " ", "w", "o", "r", "l", "d">>,
       <<"}">>,
       <<"A", " ", "-", ">">>,
       <<"t", "i", "t", "l", "e", " ", "D", "e", "m", "o">>,
       <<"x", " ", ".", ".", ".", " ", "y">> >>

UnmatchedLines == {UNMATCHED[i] : i \in 1..Len(UNMATCHED)} \cup {<<"=", "=", " ", "i", "n", "i", "t", " ", "=", "=">>}

\* No line is kept: directives, a comment, and blank lines.
BARE ==
    << <<"@", "s", "t", "a", "r", "t", "u", "m", "l">>,
       <<"'", "c">>,
       <<" ", " ">>,
       <<>>,
       <<"@", "e", "n", "d", "u", "m", "l">> >>

\* A note without a target, a connection, and a line that matches nothing.
NOTED ==
    << <<"n", "o", "t", "e", " ", "r", "i", "g", "h", "t", ":", " ", "n">>,
       <<"A", " ", "-", ">", " ", "B", ":", " ", "h", "i">>,
       <<"=", "=", " ", "i", "n", "i", "t", " ", "=", "=">> >>

LongNameLen == 90

\* An entity whose display name has LongNameLen characters.
WIDE ==
    << <<"a", "c", "t", "o", "r", " ", "\"">> \o [i \in 1..LongNameLen |-> "n"]
           \o <<"\"", " ", "a", "s", " ", "W">>,
       <<"W", " ", "-", ">", " ", "B", ":", " ", "g", "o">> >>

ParseTexts ==
    {<<c.line>> : c \in MarkerCases}
        \cup {SCENARIO, ALIASED, REDECLARED, USEDFIRST, MIXED, ACTIVATED, getAdvancedSamplesSimple}
        \cup {UNMATCHED, BARE, NOTED, WIDE, REPEATED}

\* The texts a parser that has parsed before is given.
ReparseTexts == {SCENARIO, REDECLARED, UNMATCHED, BARE}

\* The canvas sizes autoLayout is called with: the one of generateDiagram,
\* and a smaller one.
LayoutSizes == {<<CANVAS_WIDTH, CANVAS_HEIGHT>>, <<SMALL_WIDTH, SMALL_HEIGHT>>}

\* parse has made every handler call of its two passes and returns.
Returns(st) == st.calls = 2 * Len(st.lines)

\* return {objects: ..., connections: ...} once the passes are done
Return(st) == IF Returns(st) THEN [st EXCEPT !.returned = Returned(st)] ELSE st

\* parse(plantumlText) begins, no parse being in progress: reset(), and the
\* lines it keeps.  With no line kept it returns at once.
Parse(text) ==
    /\ Returns(parser)
    /\ parser' = Return([reset(parser) EXCEPT !.lines = KeptLines(text), !.calls = 0,
                                              !.layout = NULL,
                                              !.parses = Min({@ + 1, MaxParses})])
    /\ UNCHANGED <<animator, canvas, app, timers, out, runs, speedChanges, fired, used>>

\* lines.forEach(line => this.parseObjectDefinition(line)), one call
ParseObjectDefinition ==
    /\ parser.calls < Len(parser.lines)
    /\ \E st \in {parser} :
          parser' = [parseObjectDefinition(st, st.lines[st.calls + 1])
                        EXCEPT !.calls = st.calls + 1]
    /\ UNCHANGED <<animator, canvas, app, timers, out, runs, speedChanges, fired, used>>

\* lines.forEach(line => this.parseConnection(line)), one call; after the
\* last one parse returns
ParseConnection ==
    /\ parser.calls >= Len(parser.lines)
    /\ parser.calls < 2 * Len(parser.lines)
    /\ \E st \in {parser} :
          parser' = Return([parseConnection(st, st.lines[st.calls - Len(st.lines) + 1])
                               EXCEPT !.calls = st.calls + 1])
    /\ UNCHANGED <<animator, canvas, app, timers, out, runs, speedChanges, fired, used>>

\* autoLayout(parsed.objects, canvasWidth, canvasHeight) on the entities parse
\* returned: the entity records, which the parser's Map holds too, get their
\* x and y.
AutoLayout(canvasWidth, canvasHeight) ==
    /\ Returns(parser)
    /\ Len(parser.lines) > 0
    /\ parser.layout = NULL
    /\ \E laid \in {autoLayout(parser.returned.objects, canvasWidth, canvasHeight)} :
          parser' = [parser EXCEPT !.objects = laid, !.returned.objects = laid,
                                   !.layout = <<canvasWidth, canvasHeight>>]
    /\ UNCHANGED <<animator, canvas, app, timers, out, runs, speedChanges, fired, used>>

NextParse ==
    \/ \E text \in IF parser.parses = 0 THEN ParseTexts ELSE ReparseTexts : Parse(text)
    \/ ParseObjectDefinition
    \/ ParseConnection
    \/ \E size \in LayoutSizes : AutoLayout(size[1], size[2])

SpecParse == Init /\ [][NextParse]_vars

(***************************************************************************)
(* The application: AnimatedPlantUMLApp of main.js.  Its handlers are      *)
(* called by keyboard shortcuts, by clicks on the canvas and by timers.    *)
(***************************************************************************)
\* The texts a user types into the textarea.
EMPTY == << <<" ">> >>
\* A text that is not empty and declares or connects nothing.
NOENTITY ==
    << <<"h", "e", "l", "l", "o", " ", "w", "o", "r", "l", "d">>,
       <<"t", "i", "t", "l", "e", " ", "D", "e", "m", "o">> >>

InputTexts == {EMPTY, CYCLE3, NOENTITY}

\* The samples of the selector that are modelled.
SampleTypes == {"default", "simple"}
SampleNumbers == {1, 2}

SampleText(sampleType) ==
    IF sampleType = "simple" THEN getAdvancedSamplesSimple ELSE getSampleDiagram

\* parse and autoLayout of the texts the application is driven with,
\* computed once.
Diagrams ==
    [text \in InputTexts \cup {getSampleDiagram, getAdvancedSamplesSimple} |-> Diagram(text)]

\* !input, for input the trimmed value of the textarea
InputEmpty(text) == \A i \in 1..Len(text) : Trim(text[i]) = <<>>

\* showMessage(message, type): the type of the message shown
showMessage(w, type) == [w EXCEPT !.app.message = type]

\* updateButtonStates()
updateButtonStates(w0) ==
    With(w0, LAMBDA w :
    LET hasValidInput == ~InputEmpty(w.app.input)
        hasDiagram    == IF w.app.currentDiagram = NULL THEN FALSE
                         ELSE Len(w.app.currentDiagram.objects) > 0
        isAnimating   == w.animator.isAnimating
    IN  [w EXCEPT !.app.buttons =
            [generateDisabled |-> ~hasValidInput \/ isAnimating,
             animateDisabled  |-> ~hasDiagram \/ isAnimating,
             resetDisabled    |-> isAnimating,
             animateOnclick   |-> IF isAnimating THEN "stopAnimation"
                                  ELSE "startFullAnimation"]])

\* Whatever the parse returns is stored, rendered and loaded.
generateDiagramShowsAny(w) ==
    With(Diagrams[w.app.input], LAMBDA diagramData :
      showMessage(
        updateButtonStates(
          Show([w EXCEPT !.app.currentDiagram = diagramData], diagramData)),
        "success"))

\* generateDiagram()
generateDiagram(w) ==
    IF InputEmpty(w.app.input) THEN showMessage(w, "warning")
    ELSE With(Diagrams[w.app.input], LAMBDA diagramData :
           IF Len(diagramData.objects) = 0 THEN showMessage(w, "error")
           ELSE showMessage(
                  updateButtonStates(
                    Show([w EXCEPT !.app.currentDiagram = diagramData], diagramData)),
                  "success"))

\* loadSampleDiagram()
loadSampleDiagram(w) ==
    AddTimer([w EXCEPT !.app.input = getSampleDiagram], [kind |-> "generate", due |-> 100])

\* loadSelectedSample(sampleType)
loadSelectedSample(w, sampleType) ==
    showMessage(
      AddTimer([w EXCEPT !.app.input = SampleText(sampleType)],
               [kind |-> "sample", due |-> 100, sampleType |-> sampleType,
                autoAnimate |-> w.app.autoAnimate]),
      "info")

\* loadSampleByNumber(number)
loadSampleByNumber(w, number) ==
    LET sampleTypes == <<"default", "simple", "ecommerce", "microservice">>
    IN  IF number >= 1 /\ number <= Len(sampleTypes)
        THEN loadSelectedSample(w, sampleTypes[number])
        ELSE w

\* resetDiagram()
resetDiagram(w) ==
    showMessage(
      updateButtonStates(
        loadSampleDiagram(
          [MarkStopped(stopAnimation(w)) EXCEPT
              !.canvas = clear(@), !.timers = Detach(@), !.app.currentDiagram = NULL])),
      "info")

\* startFullAnimation(), up to the first suspension of animateAllFlows
startFullAnimation(w) ==
    IF (IF w.app.currentDiagram = NULL THEN TRUE
        ELSE Len(w.app.currentDiagram.objects) = 0)
    THEN showMessage(w, "warning")
    ELSE With(CallAnimateAllFlows(w),
              LAMBDA w1 : IF w1.out.threw THEN showMessage(w1, "error") ELSE w1)

\* The listener of objectClick: createRippleEffect(objectId), which looks the
\* object up by a selector of its id, then the timer of startFlowAnimation.
objectClick(w, objectId) ==
    IF SelectorThrows(objectId) THEN w
    ELSE AddTimer(w, [kind |-> "click", due |-> 300, objectId |-> objectId])

\* A timer callback of the application.  A run of animateAllFlows was
\* awaited by startFullAnimation, which catches what it throws.
AppCallback(w, t) ==
    CASE t.kind = "generate" -> generateDiagram(w)
      [] t.kind = "sample" ->
            IF t.autoAnimate /\ t.sampleType # "simple"
            THEN AddTimer(generateDiagram(w), [kind |-> "full", due |-> 500])
            ELSE generateDiagram(w)
      [] t.kind = "full"  -> startFullAnimation(w)
      [] t.kind = "click" -> CallStartFlowAnimation(w, t.objectId)
      [] OTHER ->
            With(Callback(w, t), LAMBDA w1 :
              IF t.kind = "run" /\ w1.out.threw THEN showMessage(w1, "error") ELSE w1)

\* new AnimatedPlantUMLApp(): initializeApp has called loadSampleDiagram.
InitApp ==
    /\ animator = NewAnimator
    /\ canvas = EmptyCanvas
    /\ app = [NewApp EXCEPT !.input = getSampleDiagram]
    /\ timers = <<[kind |-> "generate", due |-> 100]>>
    /\ out = NoOut
    /\ runs = 0
    /\ speedChanges = 0
    /\ fired = FALSE
    /\ used = NoneUsed
    /\ parser = NewParser

\* A user action is counted.
Acts ==
    /\ used.actions < MaxUserActions
    /\ used' = [used EXCEPT !.actions = @ + 1, !.stop = FALSE]
    /\ UNCHANGED <<speedChanges, fired, parser>>

\* A user action that is a stop request is counted and remembered as the
\* last action.
ActsStop ==
    /\ used.actions < MaxUserActions
    /\ used' = [used EXCEPT !.actions = @ + 1, !.stop = TRUE]
    /\ UNCHANGED <<speedChanges, fired, parser>>

\* Typing into the textarea.
EditInput(text) ==
    /\ Acts
    /\ Becomes([Began EXCEPT !.app.input = text])

\* Ctrl+Enter
GenerateDiagram ==
    /\ Acts
    /\ \E w \in {Began} : Becomes([generateDiagram(w) EXCEPT !.out.call = <<"generateDiagram">>])

\* Ctrl+Space
StartFullAnimation ==
    /\ Acts
    /\ \E w \in {Began} : Becomes(startFullAnimation(w))

\* Ctrl+R
ResetDiagram ==
    /\ Acts
    /\ \E w \in {Began} : Becomes(resetDiagram(w))

\* Ctrl+1, Ctrl+2
LoadSampleByNumber(number) ==
    /\ Acts
    /\ \E w \in {Began} : Becomes(loadSampleByNumber(w, number))

\* Escape, or a click on the empty canvas
Escape ==
    /\ ActsStop
    /\ \E w \in {Began} : Becomes(MarkStopped(stopAnimation(w)))

ClickChoices ==
    UNION {{Diagrams[text].objects[k].id :
              k \in 1..Min({MaxStartIndex, Len(Diagrams[text].objects)})} :
           text \in DOMAIN Diagrams}

\* A click on an object of the canvas.
ObjectClick(objectId) ==
    /\ objectId \in StartIds(canvas)
    /\ Acts
    /\ \E w \in {Began} : Becomes(objectClick(w, objectId))

\* The next timer fires and its callback runs.
AppFireTimer ==
    /\ Len(timers) > 0
    /\ used.fires < MaxAppFires
    /\ used' = [used EXCEPT !.fires = @ + 1]
    /\ \E i \in {NextTimer(timers)} :
          \E w \in {[Began EXCEPT !.timers = Elapsed(timers, i)]} :
             Becomes(AppCallback(w, timers[i]))
    /\ fired' = ~fired
    /\ UNCHANGED <<speedChanges, parser>>

NextApp ==
    \/ \E text \in InputTexts : EditInput(text)
    \/ GenerateDiagram
    \/ StartFullAnimation
    \/ ResetDiagram
    \/ \E number \in SampleNumbers : LoadSampleByNumber(number)
    \/ Escape
    \/ \E id \in ClickChoices : ObjectClick(id)
    \/ AppFireTimer

SpecApp == InitApp /\ [][NextApp]_vars

(***************************************************************************)
(* The mouse listeners of setupEventListeners.  An event e carries the     *)
(* client position of the pointer; positions on the canvas are whole       *)
(* numbers of canvas units for the sizes the svg element is shown at here. *)
(***************************************************************************)
FracInt(k) == [n |-> k, d |-> 1]
FracSub(a, b) == [n |-> a.n * b.d - b.n * a.d, d |-> a.d * b.d]
FracLE(a, b) == a.n * b.d <= b.n * a.d
FracMin(a, b) == IF FracLE(a, b) THEN a ELSE b
FracMax(a, b) == IF FracLE(a, b) THEN b ELSE a

\* ((e.clientX - svgRect.left) / svgRect.width) * this.canvasRect.width, and
\* the same for y
ToCanvas(cv, e) ==
    [x |-> ((e.x - cv.svgRect.left) * canvasRect.width) \div cv.svgRect.width,
     y |-> ((e.y - cv.svgRect.top) * canvasRect.height) \div cv.svgRect.height]

\* The object whose box lies under the point, NULL for the empty canvas.
Under1(obj, mouse) ==
    /\ FracLE(obj.x, FracInt(mouse.x))
    /\ FracLE(FracInt(mouse.x - obj.width), obj.x)
    /\ FracLE(obj.y, FracInt(mouse.y))
    /\ FracLE(FracInt(mouse.y - obj.height), obj.y)

\* e.target.closest('.uml-object'): the object drawn last among those under
\* the pointer.
Closest(cv, e) ==
    With({k \in 1..Len(cv.objects) : Under1(cv.objects[k], ToCanvas(cv, e))},
         LAMBDA K : IF K = {} THEN NULL ELSE cv.objects[Max(K)].id)

ObjectIndex(objects, objectId) == Min({k \in 1..Len(objects) : objects[k].id = objectId})

\* clearSelection()
clearSelection(cv) ==
    [cv EXCEPT !.classes = [id \in DOMAIN cv.classes |-> cv.classes[id] \ {"selected"}]]

\* The listener of mousedown.
mousedown(w, e) ==
    With(Closest(w.canvas, e), LAMBDA objectElement :
      IF objectElement = NULL THEN w
      ELSE With(w.canvas.objects[ObjectIndex(w.canvas.objects, objectElement)], LAMBDA obj :
             With(ToCanvas(w.canvas, e), LAMBDA mouse :
               [w EXCEPT !.canvas =
                  [clearSelection(@) EXCEPT
                      !.isDragging = TRUE,
                      !.selectedObject = objectElement,
                      !.dragOffset = [x |-> FracSub(FracInt(mouse.x), obj.x),
                                      y |-> FracSub(FracInt(mouse.y), obj.y)],
                      !.startPos = mouse,
                      !.classes[objectElement] =
                          (w.canvas.classes[objectElement] \ {"selected"}) \cup {"selected"}]])))

\* The object at its new place: obj.x and obj.y of the listener of mousemove.
Dragged(cv, obj, mouse) ==
    [obj EXCEPT
       !.x = FracMax(FracInt(0),
                     FracMin(FracSub(FracInt(mouse.x), cv.dragOffset.x),
                             FracInt(canvasRect.width - obj.width))),
       !.y = FracMax(FracInt(0),
                     FracMin(FracSub(FracInt(mouse.y), cv.dragOffset.y),
                             FracInt(canvasRect.height - obj.height)))]

\* The listener of mousemove.  The object moved is the one the diagram of
\* the application holds.
mousemove(w, e) ==
    IF ~w.canvas.isDragging \/ w.canvas.selectedObject = NULL THEN w
    ELSE With(ObjectIndex(w.canvas.objects, w.canvas.selectedObject), LAMBDA k :
           With(Dragged(w.canvas, w.canvas.objects[k], ToCanvas(w.canvas, e)), LAMBDA obj :
             [w EXCEPT !.canvas.objects[k] = obj,
                       !.app.currentDiagram =
                           IF @ = NULL THEN @ ELSE [@ EXCEPT !.objects[k] = obj]]))

\* distance < 5, for the distance between two points of whole coordinates
Near(mouse, startPos) ==
    (mouse.x - startPos.x) * (mouse.x - startPos.x)
        + (mouse.y - startPos.y) * (mouse.y - startPos.y) < 5 * 5

\* Every release on the held object is taken for a click.
mouseupAnyDistance(w, e) ==
    IF ~w.canvas.isDragging THEN [w EXCEPT !.out.call = <<"mouseup", ToCanvas(w.canvas, e)>>]
    ELSE With(ToCanvas(w.canvas, e), LAMBDA mouse :
           With(w.canvas.selectedObject # NULL, LAMBDA click :
             [(IF click THEN objectClick(w, w.canvas.selectedObject) ELSE w) EXCEPT
                 !.canvas.isDragging = FALSE,
                 !.canvas.selectedObject = NULL,
                 !.out.call = <<"mouseup", mouse>>
                                 \o (IF click THEN <<w.canvas.selectedObject>> ELSE <<>>)]))

\* The listener of mouseup, with the listener of objectClick it dispatches
\* to.  out.call has the release point and the object an objectClick was
\* dispatched for.
mouseup(w, e) ==
    IF ~w.canvas.isDragging THEN [w EXCEPT !.out.call = <<"mouseup", ToCanvas(w.canvas, e)>>]
    ELSE With(ToCanvas(w.canvas, e), LAMBDA mouse :
           With(Near(mouse, w.canvas.startPos) /\ w.canvas.selectedObject # NULL, LAMBDA click :
             [(IF click THEN objectClick(w, w.canvas.selectedObject) ELSE w) EXCEPT
                 !.canvas.isDragging = FALSE,
                 !.canvas.selectedObject = NULL,
                 !.out.call = <<"mouseup", mouse>>
                                 \o (IF click THEN <<w.canvas.selectedObject>> ELSE <<>>)]))

\* The sizes and places the svg element is shown at: full size, and half
\* size away from the corner of the page.
SvgRects == {FullSize, [left |-> 20, top |-> 10, width |-> 400, height |-> 300]}

\* Client positions of the pointer: on the first object of the sample and 3
\* to 5 units from there at full size; on the same object and 2 to 4 client
\* pixels from there at half size.
ClientPoints ==
    { [x |-> 150, y |-> 120], [x |-> 153, y |-> 123], [x |-> 153, y |-> 124],
      [x |-> 95, y |-> 70], [x |-> 97, y |-> 71], [x |-> 98, y |-> 72] }

MaxMouseEvents == 4

\* A mouse event is counted.
ActsMouse ==
    /\ used.actions < MaxMouseEvents
    /\ used' = [used EXCEPT !.actions = @ + 1, !.stop = FALSE]
    /\ UNCHANGED <<speedChanges, fired, parser>>

MouseDown(e) ==
    /\ ActsMouse
    /\ \E w \in {Began} : Becomes(mousedown(w, e))

MouseMove(e) ==
    /\ ActsMouse
    /\ \E w \in {Began} : Becomes(mousemove(w, e))

MouseUp(e) ==
    /\ ActsMouse
    /\ \E w \in {Began} : Becomes(mouseup(w, e))

\* The application after construction, the svg element shown at one of the
\* sizes.
InitMouse ==
    /\ animator = NewAnimator
    /\ canvas \in {[EmptyCanvas EXCEPT !.svgRect = rect] : rect \in SvgRects}
    /\ app = [NewApp EXCEPT !.input = getSampleDiagram]
    /\ timers = <<[kind |-> "generate", due |-> 100]>>
    /\ out = NoOut
    /\ runs = 0
    /\ speedChanges = 0
    /\ fired = FALSE
    /\ used = NoneUsed
    /\ parser = NewParser

NextMouse ==
    \/ \E e \in ClientPoints : MouseDown(e)
    \/ \E e \in ClientPoints : MouseMove(e)
    \/ \E e \in ClientPoints : MouseUp(e)
    \/ GenerateDiagram
    \/ AppFireTimer

\* The pointer pressed, moved and released on the canvas of the application.
SpecMouse == InitMouse /\ [][NextMouse]_vars

(***************************************************************************)
(* The claims.                                                             *)
(***************************************************************************)
Highlights == {"highlightObject", "highlightConnection"}

\* The rendering commands of the last step.
Issued == {out.cmds[i] : i \in 1..Len(out.cmds)}

Runs == {timers[i] : i \in {j \in 1..Len(timers) : timers[j].kind = "run"}}

\* C1: once startFlowAnimation has begun a run while an earlier run of
\* startFlowAnimation was suspended, the earlier run issues no further
\* highlightObject or highlightConnection command.
C1_RestartSilencesFirstRun ==
    \A c \in Issued :
        c.cmd \in Highlights /\ c.outer = "start" => c.overtaken # "start"

\* C2: a run that was pending when stopAnimation was called issues no
\* highlightObject or highlightConnection command as long as no run has
\* begun since the stop.
C2_StoppedRunIssuesNoHighlight ==
    \A c \in Issued : c.cmd \in Highlights => ~c.halted

\* A stopped run has resumed, has issued nothing and has ended.
C2_Witness ==
    /\ out.done # NULL
    /\ out.done.halted
    /\ Len(out.done.trail) > 0
    /\ out.cmds = <<>>

\* A run of startFlowAnimation that nothing interfered with has ended: no
\* other run was pending when it was called, none has begun since, stop was
\* not called and no exception ended it.
CleanStartDone ==
    /\ out.done # NULL
    /\ out.done.outer = "start"
    /\ out.done.solo
    /\ ~out.done.stopped
    /\ out.done.overtaken = "no"
    /\ ~out.done.threw

Count(q, x) == Cardinality({i \in 1..Len(q) : q[i] = x})

CycleConnections == Diagram(CYCLE3).connections
DiamondConnections == Diagram(DIAMOND).connections

\* The object ids on the activations of a run, outermost first.
Chain(r) == [i \in 1..Len(r.stack) |-> r.stack[i].objectId]

\* C3: no object occurs twice on the chain of activations of a run, and on
\* the 3-cycle a run started at A that nothing interferes with highlights
\* exactly A, B, C, in this order, and ends.
C3_NoRepeatOnChain ==
    /\ \A r \in Runs : \A i, j \in 1..Len(r.stack) :
          i # j => Chain(r)[i] # Chain(r)[j]
    /\ (CleanStartDone /\ animator.connections = CycleConnections
                       /\ out.done.starts = <<NodeA>>)
          => out.done.trail = <<NodeA, NodeB, NodeC>>

\* The run on the 3-cycle has ended after A, B, C.
C3_Witness ==
    /\ CleanStartDone
    /\ animator.connections = CycleConnections
    /\ out.done.starts = <<NodeA>>
    /\ out.done.trail = <<NodeA, NodeB, NodeC>>

RECURSIVE PathCount(_, _, _, _)
RECURSIVE PathCountVia(_, _, _, _, _)
\* The number of edge paths from u to v that visit no node twice and avoid
\* the nodes in seen.
PathCount(g, u, v, seen) ==
    IF u \in seen THEN 0
    ELSE (IF u = v THEN 1 ELSE 0) + PathCountVia(g, FlowGet(g, u), v, seen \cup {u}, 1)
PathCountVia(g, edges, v, seen, k) ==
    IF k > Len(edges) THEN 0
    ELSE PathCount(g, edges[k].to, v, seen) + PathCountVia(g, edges, v, seen, k + 1)

\* C4: a run of startFlowAnimation(s) that nothing interferes with
\* highlights every node v once for each cycle-free edge path from s to v.
C4_OncePerPath ==
    CleanStartDone =>
        \A v \in ObjectIds(canvas) :
            Count(out.done.trail, v) =
                PathCount(animator.flowGraph, out.done.starts[1], v, {})

\* On the diamond a run from A has highlighted D twice.
C4_Witness ==
    /\ CleanStartDone
    /\ animator.connections = DiamondConnections
    /\ out.done.starts = <<NodeA>>
    /\ Count(out.done.trail, NodeD) = 2

\* C5: under FairSpec every run of startFlowAnimation that is pending
\* eventually ends, and at its end isAnimating is false.
C5_StartRunCompletes ==
    (\E r \in Runs : r.outer = "start")
        ~> (out.done # NULL /\ out.done.outer = "start" /\ ~animator.isAnimating)

\* A run that nothing interfered with has ended after at least three
\* highlights and has left isAnimating false.
C5_Witness ==
    /\ CleanStartDone
    /\ Len(out.done.trail) >= 3
    /\ ~animator.isAnimating

Frames == UNION {{r.stack[i] : i \in 1..Len(r.stack)} : r \in Runs}

RECURSIVE EdgesFrom(_, _, _)
RECURSIVE EdgesVia(_, _, _, _)
\* The connections in the order of a traversal from u that takes the edges
\* of every node in adjacency order, each followed by the whole traversal of
\* its target, and does not enter a node of seen.
EdgesFrom(g, u, seen) ==
    IF u \in seen THEN <<>> ELSE EdgesVia(g, FlowGet(g, u), seen \cup {u}, 1)
EdgesVia(g, edges, seen, k) ==
    IF k > Len(edges) THEN <<>>
    ELSE <<edges[k].connectionId>> \o EdgesFrom(g, edges[k].to, seen)
                                  \o EdgesVia(g, edges, seen, k + 1)

EffectTimers(lineId, runId) ==
    {i \in 1..Len(timers) :
        /\ timers[i].kind \in {"offset", "reset"}
        /\ timers[i].line = lineId
        /\ timers[i].run = runId}

\* C7: when a run highlights the target of a connection, the line of the
\* connection is no longer active and no timer of its flow effect is pending.
C7_TargetAfterEffectTimers ==
    \A c \in Issued :
        (c.cmd = "highlightObject" /\ c.via # NULL /\ ~c.halted /\ c.overtaken = "no")
            => /\ HasLine(canvas, c.via) => ~canvas.lines[c.via].active
               /\ EffectTimers(c.via, c.run) = {}

Highlighted(cv) == {id \in DOMAIN cv.classes : "highlighted" \in cv.classes[id]}
Active(cv) == {id \in DOMAIN cv.lines : cv.lines[id].active}

C9_FaultLeavesIdleAndCleared ==
    /\ (out.caught \/ out.threw) =>
          /\ ~animator.isAnimating
          /\ Highlighted(canvas) = {}
          /\ Active(canvas) = {}
    /\ animator.isAnimating => RunPending(timers)

\* C10: initialize is called only while the engine is idle: no step of the
\* application calls it while isAnimating is true.
C10_InitializeOnlyWhileIdle == out.initialized # "animating"

\* C11: a run of highlightPath that was suspended when stopAnimation was
\* called issues no highlightObject or highlightConnection command after it
\* resumes.
C11_StoppedPathIssuesNoHighlight ==
    \A c \in Issued : (c.cmd \in Highlights /\ c.outer = "path") => ~c.halted

\* The start points of the pending runs of animateAllFlows.
AllStarts ==
    UNION {{r.starts[k] : k \in 1..Len(r.starts)} : r \in {q \in Runs : q.outer = "all"}}

\* The ids that are the from of a connection and the to of none.
Sources(connections) ==
    {connections[k].from : k \in 1..Len(connections)}
        \ {connections[k].to : k \in 1..Len(connections)}

\* C12: the start points of animateAllFlows are the sources, or the first
\* discovered node when there is no source, and every start point is the id
\* of an entity of the diagram.
C12_StartPointsAreEntities ==
    \A r \in Runs :
        (r.outer = "all" /\ r.overtaken = "no" /\ animator.connections # <<>>) =>
            /\ {r.starts[k] : k \in 1..Len(r.starts)} =
                  IF Sources(animator.connections) # {}
                  THEN Sources(animator.connections)
                  ELSE {animator.connections[1].from}
            /\ \A k \in 1..Len(r.starts) : r.starts[k] \in ObjectIds(canvas)

\* The nodes reached from x by at most n connections.
RECURSIVE Ball(_, _, _)
Ball(g, x, n) ==
    IF n = 0 THEN {x}
    ELSE LET B == Ball(g, x, n - 1)
         IN  B \cup UNION {{FlowGet(g, u)[k].to : k \in 1..Len(FlowGet(g, u))} : u \in B}

HasEdge(g, u, v) == \E k \in 1..Len(FlowGet(g, u)) : FlowGet(g, u)[k].to = v

GraphSize == Cardinality(NodesOf(animator.connections)) + 1

\* C13: findPath(x, x) is [x]; for x # y, findPath(x, y) is null when y is
\* not reachable from x, and otherwise a sequence from x to y along
\* connections of the flow graph with as few connections as any.
C13_FindPathShortest ==
    (out.call # NULL /\ out.call[1] = "findPath") =>
        LET g == animator.flowGraph
            x == out.call[2]
            y == out.call[3]
            p == out.result
        IN  IF x = y THEN p = <<x>>
            ELSE IF y \notin Ball(g, x, GraphSize) THEN p = NULL
            ELSE /\ p # NULL
                 /\ p[1] = x
                 /\ p[Len(p)] = y
                 /\ \A i \in 1..(Len(p) - 1) : HasEdge(g, p[i], p[i + 1])
                 /\ y \in Ball(g, x, Len(p) - 1)
                 /\ y \notin Ball(g, x, Len(p) - 2)

\* findPath(A, C) has returned the two-connection path where no single
\* connection leads from A to C.
C13_Witness ==
    /\ out.call = <<"findPath", NodeA, NodeC>>
    /\ out.result = <<NodeA, NodeB, NodeC>>
    /\ Len(animator.connections) = 3

\* The position in p of the node that discovered p[j]: the last earlier
\* node with a connection to it.
ParentIn(g, p, j) ==
    With({i \in 1..(j - 1) : HasEdge(g, p[i], p[j])},
         LAMBDA I : IF I = {} THEN 0 ELSE Max(I))

RECURSIVE Under(_, _, _, _)
\* p[k] is p[i] or was discovered below it.
Under(g, p, i, k) ==
    IF k = i THEN TRUE
    ELSE IF k < i THEN FALSE
    ELSE Under(g, p, i, ParentIn(g, p, k))

FirstEdgeTo(g, u, v) == Min({k \in 1..Len(FlowGet(g, u)) : FlowGet(g, u)[k].to = v})

\* C14: previewPath(id) starts with id, lists exactly the nodes reachable
\* from id, each once, in depth-first preorder by adjacency order: every
\* later node was discovered from the last earlier node with a connection
\* to it, the nodes between the two were discovered below that node, and
\* the nodes discovered from one node come in the order of its adjacency
\* array.  For an id with no outgoing connection it is [id].
C14_PreviewPathPreorder ==
    (out.call # NULL /\ out.call[1] = "previewPath") =>
        LET g  == animator.flowGraph
            id == out.call[2]
            p  == out.result
        IN  /\ Len(p) >= 1
            /\ p[1] = id
            /\ \A i, j \in 1..Len(p) : i # j => p[i] # p[j]
            /\ {p[i] : i \in 1..Len(p)} = Ball(g, id, GraphSize)
            /\ \A j \in 2..Len(p) :
                  /\ ParentIn(g, p, j) > 0
                  /\ \A k \in ParentIn(g, p, j)..j : Under(g, p, ParentIn(g, p, j), k)
            /\ \A j, k \in 2..Len(p) :
                  (j < k /\ ParentIn(g, p, j) = ParentIn(g, p, k)) =>
                      FirstEdgeTo(g, p[ParentIn(g, p, j)], p[j])
                          < FirstEdgeTo(g, p[ParentIn(g, p, k)], p[k])
            /\ Len(FlowGet(g, id)) = 0 => p = <<id>>

\* previewPath(A) on the diamond has listed the join D once, below B.
C14_Witness ==
    /\ out.call = <<"previewPath", NodeA>>
    /\ animator.connections = DiamondConnections
    /\ out.result = <<NodeA, NodeB, NodeD, NodeC>>

RECURSIVE SumLen(_, _)
\* The sum of the lengths of the adjacency arrays of the keys in K.
SumLen(g, K) ==
    IF K = {} THEN 0
    ELSE LET key == CHOOSE x \in K : TRUE
         IN  Len(g[key]) + SumLen(g, K \ {key})

IsCommand(conn) == conn.arrowType = KW_COMMAND

\* C15: the adjacency arrays of the flow graph hold one entry for each
\* connection that is no command marker, and null is no key of it.
C15_AdjacencyCountsConnections ==
    /\ SumLen(animator.flowGraph, DOMAIN animator.flowGraph) =
          Cardinality({k \in 1..Len(animator.connections) :
                          ~IsCommand(animator.connections[k])})
    /\ NULL \notin DOMAIN animator.flowGraph

\* parse has returned: every line has gone through both passes.
ParseDone == Len(parser.lines) > 0 /\ parser.calls = 2 * Len(parser.lines)

EntityIds == {parser.objects[i].id : i \in 1..Len(parser.objects)}

\* C16: for every line `A <marker> B: label' parse yields exactly one
\* connection, from A to B (from B to A for a reverse marker), of the
\* marker's kind and with the trimmed label, and no entity other than A and B.
C16_MarkerLineYieldsItsConnection ==
    \A c \in MarkerCases :
        (ParseDone /\ parser.lines = <<c.line>>) =>
            /\ Len(parser.connections) = 1
            /\ parser.connections[1].from = (IF c.reverse THEN c.right ELSE c.left)
            /\ parser.connections[1].to = (IF c.reverse THEN c.left ELSE c.right)
            /\ parser.connections[1].connectionType = c.kind
            /\ parser.connections[1].label = c.label
            /\ EntityIds = {c.left, c.right}

\* C17: `A -> B: hi' / `B --> A: ok' parses to the two participants A and
\* B, and to the connections A to B, solid, "hi" and B to A, dashed, "ok".
C17_ScenarioTwoEntitiesTwoConnections ==
    (ParseDone /\ parser.lines = SCENARIO) =>
        /\ Len(parser.objects) = 2
        /\ EntityIds = {NodeA, NodeB}
        /\ \A i \in 1..Len(parser.objects) :
              parser.objects[i].type = objectTypes.PARTICIPANT
        /\ Len(parser.connections) = 2
        /\ parser.connections[1].from = NodeA
        /\ parser.connections[1].to = NodeB
        /\ parser.connections[1].connectionType = "solid"
        /\ parser.connections[1].label = <<"h", "i">>
        /\ parser.connections[2].from = NodeB
        /\ parser.connections[2].to = NodeA
        /\ parser.connections[2].connectionType = "dashed"
        /\ parser.connections[2].label = <<"o", "k">>

\* C18: a line `L <marker> R: label' with a reverse marker is stored with
\* from = R and to = L, whatever else the line yields.
C18_ReverseMarkerSwapsEndpoints ==
    \A c \in {d \in MarkerCases : d.reverse} :
        (ParseDone /\ parser.lines = <<c.line>>) =>
            /\ Len(parser.connections) >= 1
            /\ \A k \in 1..Len(parser.connections) :
                  /\ parser.connections[k].from = c.right
                  /\ parser.connections[k].to = c.left

NodeU == <<"U">>
NodeS == <<"S">>

\* C19: `actor "User" as U' / `U -> S: go' parses to the actor U named
\* User, the participant S named S, and the one connection from U to S.
C19_AliasedActorAndAutoCreated ==
    (ParseDone /\ parser.lines = ALIASED) =>
        /\ Len(parser.objects) = 2
        /\ parser.objects[1].id = NodeU
        /\ parser.objects[1].type = objectTypes.ACTOR
        /\ parser.objects[1].name = <<"U", "s", "e", "r">>
        /\ parser.objects[2].id = NodeS
        /\ parser.objects[2].type = objectTypes.PARTICIPANT
        /\ parser.objects[2].name = NodeS
        /\ Len(parser.connections) = 1
        /\ parser.connections[1].from = NodeU
        /\ parser.connections[1].to = NodeS

\* The parse of the aliased actor has returned.
C19_Witness ==
    /\ ParseDone
    /\ parser.lines = ALIASED
    /\ Len(parser.connections) = 1

\* C20: the entity list never holds two entities with one id, and a call
\* of parseObjectDefinition or parseConnection leaves every entity already
\* registered as it is, in its place.
C20_FirstWriteWins ==
    /\ [](\A i, j \in 1..Len(parser.objects) :
             i # j => parser.objects[i].id # parser.objects[j].id)
    /\ [][parser'.calls = parser.calls + 1 =>
             /\ Len(parser'.objects) >= Len(parser.objects)
             /\ \A i \in 1..Len(parser.objects) : parser'.objects[i] = parser.objects[i]]_vars

\* U, declared an actor, then a database, then used and noted, is the
\* actor named User; S, first met in a connection, is a participant.
C20_Witness ==
    /\ ParseDone
    /\ parser.lines = REDECLARED
    /\ parser.objects[1].id = NodeU
    /\ parser.objects[1].type = objectTypes.ACTOR
    /\ parser.objects[1].name = <<"U", "s", "e", "r">>
    /\ parser.objects[2].id = NodeS
    /\ parser.objects[2].type = objectTypes.PARTICIPANT

\* The line the next handler call of the parse in progress is made on.
HandledLine(st) ==
    IF st.calls < Len(st.lines) THEN st.lines[st.calls + 1]
    ELSE st.lines[st.calls - Len(st.lines) + 1]

IdsOf(objects) == {objects[i].id : i \in 1..Len(objects)}

\* The endpoints of the connections that are not command markers.
EndpointsOf(connections) ==
    UNION {{connections[k].from, connections[k].to} :
             k \in {j \in 1..Len(connections) : connections[j].arrowType # KW_COMMAND}}

\* C22: whenever a connection that is no command marker is stored, and in
\* every model parse has returned, its from and its to are ids of entities
\* of the entity list; and an entity the connection pass creates is a
\* Participant whose name is its id.
C22_EndpointsAreEntities ==
    /\ [](/\ EndpointsOf(parser.connections) \subseteq IdsOf(parser.objects)
          /\ EndpointsOf(parser.returned.connections) \subseteq IdsOf(parser.returned.objects))
    /\ [][(parser.calls >= Len(parser.lines) /\ parser'.calls = parser.calls + 1) =>
             \A i \in (Len(parser.objects) + 1)..Len(parser'.objects) :
                 /\ parser'.objects[i].type = objectTypes.PARTICIPANT
                 /\ parser'.objects[i].name = parser'.objects[i].id]_vars

\* `A -> B: hi / B --> A: ok' has been parsed: its second line is stored as a
\* connection from `-', an entity the connection pass created.
C22_Witness ==
    /\ parser.lines = SCENARIO
    /\ Returns(parser)
    /\ Len(parser.returned.connections) = 2
    /\ parser.returned.connections[2].from = <<"-">>
    /\ \E i \in 1..Len(parser.returned.objects) :
          /\ parser.returned.objects[i].id = <<"-">>
          /\ parser.returned.objects[i].name = <<"-">>
          /\ parser.returned.objects[i].type = objectTypes.PARTICIPANT

\* C23: a parse on a parser that has parsed before returns what a new
\* parser returns for the same lines (nothing of the earlier parse is left,
\* the ordinals of the connection ids restart); and until the later parse
\* returns, the lists the earlier parse returned are as they were.
C23_ReparseReplaces ==
    /\ []((Returns(parser) /\ parser.layout = NULL) =>
             /\ parser.returned = parse(parser.lines)
             /\ Returned(parser) = parser.returned)
    /\ [][~Returns(parser') => parser'.returned = parser.returned]_vars

\* The scenario has been parsed and returned by a parser that had parsed
\* another text before.
C23_Witness ==
    /\ parser.parses = 2
    /\ parser.lines = SCENARIO
    /\ Returns(parser)
    /\ Len(parser.returned.objects) = 3
    /\ parser.returned.connections[1].id = <<"A", "-", "B", "-", "0">>

\* C25: after autoLayout(entities, canvasWidth, canvasHeight) the box of every
\* entity lies within the canvas: 0 <= x, x + width <= canvasWidth, 0 <= y and
\* y + height <= canvasHeight; and the list the caller holds is the laid out
\* one.
C25_BoxesWithinCanvas ==
    parser.layout # NULL =>
        /\ parser.returned.objects = parser.objects
        /\ \A i \in 1..Len(parser.returned.objects) :
              \E obj \in {parser.returned.objects[i]} :
                 /\ 0 <= obj.x.n
                 /\ obj.x.n + obj.width * obj.x.d <= parser.layout[1] * obj.x.d
                 /\ 0 <= obj.y.n
                 /\ obj.y.n + obj.height * obj.y.d <= parser.layout[2] * obj.y.d

\* The milliseconds of the delay a run waits at, before the division by the
\* speed.
BaseMs(pc) ==
    CASE pc \in {"d300", "p300", "q300"} -> 300
      [] pc = "d500"  -> 500
      [] pc = "c600"  -> 600
      [] pc = "c100"  -> 100
      [] pc = "d200"  -> 200
      [] pc = "d1000" -> 1000

\* v clamped to [0.1, 5.0], in tenths
Clamped(v) == IF v < 1 THEN 1 ELSE IF v > 50 THEN 50 ELSE v

\* C24: setSpeed(v) stores v clamped to [0.1, 5.0] and the speed is always
\* in that range; the call leaves every scheduled timer as it is; and when a
\* timer fires, the timers scheduled before keep their time less the time
\* that has passed, while the delays the callback schedules are computed with
\* the speed at that moment.
C24_SetSpeedClampsFutureDelays ==
    /\ [](/\ animator.animationSpeed \in 1..50
          /\ (out.call # NULL /\ out.call[1] = "setSpeed") =>
                 animator.animationSpeed = Clamped(out.call[2]))
    /\ [][speedChanges' # speedChanges => timers' = timers]_vars
    /\ [][fired' # fired =>
             /\ Len(timers') >= Len(timers) - 1
             /\ \A j \in 1..(Len(timers) - 1) :
                   timers'[j] = Elapsed(timers, NextTimer(timers))[j]
             /\ \A j \in Len(timers)..Len(timers') :
                   timers'[j].kind = "run" =>
                       timers'[j].due = Delay(BaseMs(timers'[j].pc), animator'.animationSpeed)]_vars

\* setSpeed(7.0) has stored 5.0 while a run waits at a delay scheduled at
\* speed 1.0: its timer has more time left than the delay would now take.
C24_Witness ==
    /\ out.call = <<"setSpeed", 70>>
    /\ animator.animationSpeed = 50
    /\ \E j \in 1..Len(timers) :
          /\ timers[j].kind = "run"
          /\ timers[j].due = Delay(BaseMs(timers[j].pc), 10)

\* C26: after adjustAnimationSpeed the speed of the engine is within
\* [0.5, 3.0], it is the value of the speed slider, and the text beside the
\* slider shows it.
C26_AdjustedSpeedInRangeAndShown ==
    (out.call # NULL /\ out.call[1] = "adjustAnimationSpeed") =>
        /\ animator.animationSpeed \in 5..30
        /\ animator.animationSpeed = app.speedSlider
        /\ app.speedValue = ToFixed1x(animator.animationSpeed)

\* adjustAnimationSpeed(-0.1) has left the speed at 0.5, a diagram being shown.
C26_Witness ==
    /\ out.call = <<"adjustAnimationSpeed", -1>>
    /\ animator.animationSpeed = 5
    /\ app.speedSlider = 5
    /\ app.speedValue = <<"0", ".", "5", "x">>
    /\ Len(canvas.objects) > 0

\* C27: a run of startFlowAnimation(b) that was called while an earlier run
\* was suspended, and that neither stopAnimation nor a later start has
\* interfered with, has highlighted every node reachable from b when it ends.
C27_SecondRunNotCutShort ==
    (/\ out.done # NULL
     /\ out.done.outer = "start"
     /\ ~out.done.solo
     /\ ~out.done.stopped
     /\ out.done.overtaken = "no"
     /\ ~out.done.threw) =>
        Ball(animator.flowGraph, out.done.starts[1], GraphSize)
            \subseteq {out.done.trail[i] : i \in 1..Len(out.done.trail)}

\* The nodes a traversal from u highlights, in order: u, then for each
\* connection of u in turn the nodes of the traversal from its target, a node
\* already on the path ending the descent.
RECURSIVE TrailFrom(_, _, _), TrailVia(_, _, _, _)
TrailFrom(g, u, seen) ==
    IF u \in seen THEN <<>> ELSE <<u>> \o TrailVia(g, FlowGet(g, u), seen \cup {u}, 1)
TrailVia(g, edges, seen, k) ==
    IF k > Len(edges) THEN <<>>
    ELSE TrailFrom(g, edges[k].to, seen) \o TrailVia(g, edges, seen, k + 1)

\* The traversals from the first n start points, one after another.
RECURSIVE TrailOfStarts(_, _, _)
TrailOfStarts(g, starts, n) ==
    IF n = 0 THEN <<>>
    ELSE TrailOfStarts(g, starts, n - 1) \o TrailFrom(g, starts[n], {})

IsPrefix(p, q) == Len(p) <= Len(q) /\ SubSeq(q, 1, Len(p)) = p

\* Where an id is first mentioned by the connections: the from of a
\* connection comes before its to.
Mention(connections, id) ==
    Min({2 * k - 1 : k \in {j \in 1..Len(connections) : connections[j].from = id}}
            \cup {2 * k : k \in {j \in 1..Len(connections) : connections[j].to = id}})

\* A run of animateAllFlows that nothing interferes with: no other run was
\* pending when it was called, none has begun since, stop was not called and
\* no exception ended it.
CleanAll(r) ==
    /\ r.outer = "all"
    /\ r.solo
    /\ ~r.stopped
    /\ r.overtaken = "no"
    /\ ~r.threw

\* What C28 says of such a run r, pending or ended.
Sequential(r) ==
    /\ \A i, j \in 1..Len(r.starts) :
          i < j => Mention(animator.connections, r.starts[i])
                      < Mention(animator.connections, r.starts[j])
    /\ IsPrefix(r.trail, TrailOfStarts(animator.flowGraph, r.starts, Len(r.starts)))

\* The traversal a pending run r is in is the one from its k-th start point,
\* the traversals before it being complete.
InTurn(r) ==
    r.stack # <<>> =>
        /\ r.stack[1].objectId = r.starts[r.k]
        /\ Len(r.trail) > Len(TrailOfStarts(animator.flowGraph, r.starts, r.k - 1))
        /\ Len(r.trail) <= Len(TrailOfStarts(animator.flowGraph, r.starts, r.k))

\* C28: animateAllFlows traverses its start points in the order of their
\* first mention, one traversal after the other: what it has highlighted is
\* always a prefix of the traversals in that order, the traversal in progress
\* being the only incomplete one; when the traversal from a start point
\* after the first begins, that start point alone is highlighted and no
\* connection is active; and when the run ends, every traversal is complete
\* and isAnimating is false.
C28_AllFlowsSequential ==
    /\ \A r \in Runs :
          CleanAll(r) =>
              /\ Sequential(r)
              /\ InTurn(r)
              /\ (r.pc = "d300" /\ Len(r.stack) = 1 /\ r.k > 1) =>
                    /\ Highlighted(canvas) \subseteq {Str(r.starts[r.k])}
                    /\ Active(canvas) = {}
    /\ (out.done # NULL /\ CleanAll(out.done)) =>
          /\ Sequential(out.done)
          /\ out.done.trail =
                TrailOfStarts(animator.flowGraph, out.done.starts, Len(out.done.starts))
          /\ ~animator.isAnimating

\* On the diagram with the sources U and S the run has ended: U and T, then
\* S and T.
C28_Witness ==
    /\ out.done # NULL
    /\ CleanAll(out.done)
    /\ out.done.starts = <<NodeU, NodeS>>
    /\ out.done.trail = <<NodeU, <<"T">>, NodeS, <<"T">>>>

\* The sequences of n nodes from x to y along connections of g.
PathsOfLength(g, nodes, x, y, n) ==
    {q \in [1..n -> nodes] :
        /\ q[1] = x
        /\ q[n] = y
        /\ \A i \in 1..(n - 1) : HasEdge(g, q[i], q[i + 1])}

\* The first position where two different sequences of one length differ.
FirstDifference(p, q) == Min({i \in 1..Len(p) : p[i] # q[i]})

\* C29: of the paths from x to y that are as short as the one findPath(x, y)
\* returns, the returned one is the first by adjacency order: where another
\* one first leaves it, the returned path takes the connection that comes
\* earlier in the adjacency array of the node they leave from.
C29_FindPathFirstByAdjacency ==
    (out.call # NULL /\ out.call[1] = "findPath" /\ out.result # NULL) =>
        \E p \in {out.result} :
            \A q \in PathsOfLength(animator.flowGraph, NodesOf(animator.connections),
                                   out.call[2], out.call[3], Len(p)) :
                q # p =>
                    \E i \in {FirstDifference(p, q)} :
                        FirstEdgeTo(animator.flowGraph, p[i - 1], p[i])
                            < FirstEdgeTo(animator.flowGraph, p[i - 1], q[i])

\* On a diamond whose connection from A to C comes before the one from A to
\* B, findPath(A, D) has returned the path through C.
C29_Witness ==
    /\ out.call = <<"findPath", NodeA, NodeD>>
    /\ out.result = <<NodeA, NodeC, NodeD>>
    /\ HasEdge(animator.flowGraph, NodeA, NodeB)
    /\ HasEdge(animator.flowGraph, NodeB, NodeD)
    /\ FirstEdgeTo(animator.flowGraph, NodeA, NodeC) < FirstEdgeTo(animator.flowGraph, NodeA, NodeB)

\* The connections of a sequence with the given from, in its order.
ConnectionsFrom(connections, key) == SelectSeq(connections, LAMBDA c : c.from = key)

\* C30: the flow graph has a key for every from of the connection sequence
\* and no other, and the adjacency array of a key holds the entries to,
\* connectionId and label of the connections with that from, in the order
\* of the sequence; after initialize is called again, with the same sequence
\* too, this is so, and initialize with the same sequence changes nothing.
C30_FlowGraphOrderedAndIdempotent ==
    /\ DOMAIN animator.flowGraph =
          {animator.connections[k].from : k \in 1..Len(animator.connections)}
    /\ \A key \in DOMAIN animator.flowGraph :
          \E from \in {ConnectionsFrom(animator.connections, key)} :
             animator.flowGraph[key] =
                 [k \in 1..Len(from) |->
                     [to |-> from[k].to, connectionId |-> from[k].id, label |-> from[k].label]]
    /\ initialize(animator, animator.connections) = animator

\* initialize has been called again with the sequence the animator had, in
\* which one node has two connections.
C30_Witness ==
    /\ out.call = <<"initialize">>
    /\ out.result = animator.connections
    /\ \E key \in DOMAIN animator.flowGraph : Len(animator.flowGraph[key]) = 2

\* No two records of a connection sequence have the same id.
UniqueIds(connections) ==
    \A i, j \in 1..Len(connections) : i # j => connections[i].id # connections[j].id

\* C31: after every handler call, and in every model parse has returned, no
\* two records of the connection sequence, connections and command markers
\* alike, have the same id.
C31_ConnectionIdsUnique ==
    /\ UniqueIds(parser.connections)
    /\ UniqueIds(parser.returned.connections)

\* The text with a repeated line, hyphenated tokens and two markers has been
\* parsed: six records, the first two from A to B.
C31_Witness ==
    /\ parser.lines = REPEATED
    /\ Returns(parser)
    /\ Len(parser.returned.connections) = 6
    /\ parser.returned.connections[1].from = parser.returned.connections[2].from
    /\ parser.returned.connections[1].to = parser.returned.connections[2].to
    /\ parser.returned.connections[4].id = <<"A", "-", "B", "-", "1", "-", "3">>
    /\ parser.returned.connections[6].id = <<"c", "o", "m", "m", "a", "n", "d", "-", "5">>

\* What a run r of highlightPath has issued so far follows the path: the
\* nodes highlighted are the first nodes of the path, the connections
\* highlighted lead from each of them to the next, and a node is highlighted
\* before the connection that leaves it.
AlongPath(r, path) ==
    /\ Len(r.edges) <= Len(r.trail)
    /\ Len(r.trail) <= Len(r.edges) + 1
    /\ IsPrefix(r.trail, path)
    /\ \A i \in 1..Len(r.edges) :
          \E k \in 1..Len(animator.connections) :
             /\ animator.connections[k].id = r.edges[i]
             /\ animator.connections[k].from = path[i]
             /\ animator.connections[k].to = path[i + 1]

\* The highlight commands the run with the given id issued in the last step.
IssuedBy(id) ==
    {i \in 1..Len(out.cmds) : out.cmds[i].run = id /\ out.cmds[i].cmd \in Highlights}

\* C32: a run of highlightPath(from, to) that no exception ends issues its
\* highlights along the path findPath(from, to) returns: highlightObject of
\* the first node, highlightConnection of a connection to the next node,
\* highlightObject of that node, and so on to highlightObject of the last
\* node, one command between two delays; when there is no path, or from is
\* to, the call issues no command and leaves the canvas as it is.
C32_HighlightPathInOrder ==
    /\ [](\A r \in Runs :
             r.outer = "path" =>
                 /\ r.path = findPath(animator.flowGraph, r.starts[1], r.starts[2])
                 /\ Len(r.path) >= 2
                 /\ AlongPath(r, r.path)
                 /\ Cardinality(IssuedBy(r.id)) <= 1)
    /\ []((out.done # NULL /\ out.done.outer = "path" /\ ~out.done.threw) =>
             \E path \in {findPath(animator.flowGraph, out.done.starts[1], out.done.starts[2])} :
                IF path = NULL \/ Len(path) < 2
                THEN out.done.trail = <<>> /\ out.done.edges = <<>> /\ out.cmds = <<>>
                ELSE /\ out.done.trail = path
                     /\ Len(out.done.edges) = Len(path) - 1
                     /\ AlongPath(out.done, path)
                     /\ Cardinality(IssuedBy(out.done.id)) = 1)
    /\ [][(/\ runs' = runs + 1
           /\ out'.done # NULL
           /\ out'.done.outer = "path"
           /\ ~out'.done.threw) => canvas' = canvas]_vars

\* On the 3-cycle highlightPath(A, C) has ended: A, B and C highlighted, and
\* the two connections between them.
C32_Witness ==
    /\ out.done # NULL
    /\ out.done.outer = "path"
    /\ out.done.starts = <<NodeA, NodeC>>
    /\ out.done.trail = <<NodeA, NodeB, NodeC>>
    /\ out.done.edges = <<<<"A", "-", "B", "-", "0">>, <<"B", "-", "C", "-", "1">>>>

\* One connection of every marker, from A to B.
KindTexts ==
    {<<c.line>> : c \in {d \in MarkerCases : d.left = NodeA /\ d.label = <<"h", "i">>}}

NextKinds ==
    \/ \E text \in KindTexts : Load(text)
    \/ \E id \in {NodeA, NodeB} : StartAlone(id)
    \/ \E speed \in Speeds : SetSpeed(speed)
    \/ FireTimer

\* One run on a connection of any kind.
SpecKinds == Init /\ [][NextKinds]_vars

\* The dash pattern a line has when it shows the connection's own style: the
\* style's strokeDasharray, and no pattern for 'none'.
OwnDash(connection) ==
    IF connection.style.strokeDasharray = "none" THEN "" ELSE connection.style.strokeDasharray

\* The runs no call interfered with: pending ones and the one that just ended.
Uncancelled ==
    {r \in Runs : r.solo /\ ~r.stopped /\ ~r.halted /\ r.overtaken = "no"}
        \cup (IF out.done # NULL /\ out.done.solo /\ ~out.done.stopped /\ ~out.done.halted
                  /\ out.done.overtaken = "no" /\ ~out.done.threw
               THEN {out.done} ELSE {})

\* C33: in an uncancelled run, a line whose flow effect has finished (the
\* line is no longer active and no timer of the effect is pending) has the
\* stroke width and the dash pattern of its connection's style.
C33_LineStyleRestored ==
    \A r \in Uncancelled :
        \A i \in 1..Len(r.edges) :
            (/\ HasLine(canvas, r.edges[i])
             /\ ~canvas.lines[r.edges[i]].active
             /\ EffectTimers(r.edges[i], r.id) = {})
                => \E connection \in {FindConnection(canvas.connections, r.edges[i])} :
                      /\ canvas.lines[r.edges[i]].width = connection.style.strokeWidth
                      /\ canvas.lines[r.edges[i]].dash = OwnDash(connection)

\* A run over a dotted connection has ended, at a speed changed on the way:
\* the line was active at width 4 with the dots of the effect and has the
\* width and the dots of its style again.
C33_Witness ==
    /\ CleanStartDone
    /\ Len(out.done.edges) = 1
    /\ speedChanges > 0
    /\ \E connection \in {FindConnection(canvas.connections, out.done.edges[1])} :
          /\ connection.connectionType = "dotted"
          /\ connection.style = [strokeWidth |-> 120, strokeDasharray |-> "2,3"]
          /\ canvas.lines[out.done.edges[1]].width = 120
          /\ canvas.lines[out.done.edges[1]].dash = "2,3"
          /\ EffectTimers(out.done.edges[1], out.done.id) = {}

\* C34: generateDiagram called with an empty input, or with an input whose
\* parse has no objects, shows one message (a warning, an error) and leaves
\* the current diagram, the canvas, the animator with its connections and
\* flow graph, the other fields of the application and the timers as they
\* were.
C34_RejectedInputChangesNothing ==
    [][(/\ out'.call = <<"generateDiagram">>
        /\ \/ InputEmpty(app.input)
           \/ Len(Diagrams[app.input].objects) = 0)
          => /\ app'.message = (IF InputEmpty(app.input) THEN "warning" ELSE "error")
             /\ app' = [app EXCEPT !.message = app'.message]
             /\ canvas' = canvas
             /\ animator' = animator
             /\ timers' = timers
             /\ runs' = runs]_vars

\* generateDiagram was called with a text without objects while the sample
\* was shown, and the sample is still shown and loaded.
C34_Witness ==
    /\ out.call = <<"generateDiagram">>
    /\ app.input = NOENTITY
    /\ app.message = "error"
    /\ app.currentDiagram # NULL
    /\ Len(canvas.objects) > 0
    /\ canvas.connections = app.currentDiagram.connections
    /\ animator.connections = app.currentDiagram.connections
    /\ Len(animator.connections) > 0
    /\ DOMAIN animator.flowGraph # {}

\* The connections that leave the objects on the chain of activations of r.
ChainEdges(r) ==
    UNION {{r.stack[i].outgoing[k].connectionId : k \in 1..Len(r.stack[i].outgoing)} :
           i \in 1..Len(r.stack)}

Range(q) == {q[i] : i \in 1..Len(q)}

\* C36: when a run of startFlowAnimation(s) that nothing interferes with has
\* ended, the nodes it has highlighted are the nodes reachable from s in the
\* flow graph, which are the elements of previewPath(s), and they all have
\* the highlighted class; while the run is pending the objects with the
\* highlighted class are the nodes it has highlighted so far.
C36_HighlightsReachableSet ==
    /\ \A r \in Runs :
          (r.outer = "start" /\ r.solo /\ ~r.stopped /\ ~r.halted /\ r.overtaken = "no")
              => Highlighted(canvas) = Range(r.trail)
    /\ CleanStartDone =>
          /\ Range(out.done.trail) = Ball(animator.flowGraph, out.done.starts[1], GraphSize)
          /\ Range(out.done.trail) = Range(previewPath(animator.flowGraph, out.done.starts[1]))
          /\ Highlighted(canvas) = Range(out.done.trail)

\* The run from A on the diamond has ended with A, B, C and D highlighted,
\* D after B and again after C.
C36_Witness ==
    /\ CleanStartDone
    /\ out.done.starts = <<NodeA>>
    /\ out.done.trail = <<NodeA, NodeB, NodeD, NodeC, NodeD>>
    /\ Highlighted(canvas) = {NodeA, NodeB, NodeC, NodeD}
    /\ previewPath(animator.flowGraph, NodeA) = <<NodeA, NodeB, NodeD, NodeC>>

\* C37: as long as the last user action is a stop (Escape, a click on the
\* empty canvas), isAnimating is false and no step issues a highlightObject
\* or highlightConnection command.
C37_StopIsFinal ==
    used.stop =>
        /\ ~animator.isAnimating
        /\ \A c \in Issued : c.cmd \notin Highlights

\* C38: a release while an object is held dispatches one objectClick for
\* that object when the release point is less than 5 canvas units from the
\* press point, and the listener schedules startFlowAnimation for the
\* object; from 5 units on it dispatches none and schedules nothing; no
\* release starts a run itself, and after every release the canvas is not
\* dragging and holds no object.  When the scheduled timer fires, a run of
\* startFlowAnimation from the object begins.
C38_ClickOrDrag ==
    /\ [][(out'.call # NULL /\ out'.call[1] = "mouseup") =>
            /\ ~canvas'.isDragging
            /\ canvas'.selectedObject = NULL
            /\ runs' = runs
            /\ IF /\ canvas.isDragging
                  /\ canvas.selectedObject # NULL
                  /\ Near(out'.call[2], canvas.startPos)
               THEN /\ out'.call = <<"mouseup", out'.call[2], canvas.selectedObject>>
                    /\ ~SelectorThrows(canvas.selectedObject) =>
                          timers' = Append(timers, [kind |-> "click", due |-> 300,
                                                    objectId |-> canvas.selectedObject])
               ELSE /\ Len(out'.call) = 2
                    /\ timers' = timers]_vars
    /\ [][(/\ Len(timers) > 0
           /\ fired' # fired
           /\ timers[NextTimer(timers)].kind = "click") =>
              /\ runs' = runs + 1
              /\ \E r \in {s \in {timers'[i] : i \in 1..Len(timers')} : s.kind = "run"}
                              \cup (IF out'.done = NULL THEN {} ELSE {out'.done}) :
                    /\ r.id = runs'
                    /\ r.outer = "start"
                    /\ r.starts = <<timers[NextTimer(timers)].objectId>>]_vars

\* Shown at half size, the first object of the sample was pressed, dragged
\* by 4 units and released there (2 client pixels from the press): one
\* objectClick for it, its timer pending, the object where it was dragged to.
C38_Witness ==
    /\ Len(out.call) = 3
    /\ out.call[1] = "mouseup"
    /\ out.call[3] = <<"C", "u", "s", "t", "o", "m", "e", "r">>
    /\ canvas.svgRect.width = 400
    /\ canvas.startPos = [x |-> 150, y |-> 120]
    /\ out.call[2] = [x |-> 154, y |-> 122]
    /\ canvas.objects[1].x = [n |-> 652, d |-> 8]
    /\ app.currentDiagram.objects[1] = canvas.objects[1]
    /\ ~canvas.isDragging
    /\ canvas.selectedObject = NULL
    /\ \E i \in 1..Len(timers) : timers[i].kind = "click"

=============================================================================
